---- MODULE Spec2Model ----
(***************************************************************************)
(* Model of the skipping-stones solver core: the DynamoDB work queue       *)
(* (solver_queue.py), the queue workers (solve_queue.py), the solution     *)
(* cache (solver_cache.py) and the hint route (app.py).                    *)
(*                                                                         *)
(* Conventions                                                             *)
(*  - A DynamoDB table is a set of items (records); the hash key           *)
(*    board_state identifies an item.  An attribute an item does not carry *)
(*    is a field the record does not have.                                 *)
(*  - A Python int bitmask is the set of its set bit positions (Python     *)
(*    ints are unbounded, the Wiegleb board needs 45 bits).                *)
(*  - A key string is the sequence of its ':'-separated segments, the last *)
(*    one being the decimal text of the bitmask.                           *)
(*  - datetime.now().isoformat() of clock value t is the text <<t>>; the   *)
(*    empty text <<>> is what item.get('updated_at', '') yields for an     *)
(*    item without the attribute.                                          *)
(*  - Python's None is the empty sequence <<>>, a value v is <<v>>, where  *)
(*    a variable holds either.                                             *)
(***************************************************************************)
EXTENDS Integers, Sequences, FiniteSets, TLC

VARIABLES
    now,        \* wall clock, seconds (datetime.now())
    queue,      \* the solver-queue table: a set of items
    proc,       \* the worker processes / API callers, one record each
    lease,      \* history: <<key, who>>, who moved key Pending->Solving since it last left Solving
    saw,        \* history: <<key, w>>, direct claim_next(False) call w chose key in its scan
    last,       \* history: the queue write the last step made, with the item it found
    cache,      \* the solver-cache table: a set of items
    hint,       \* the requests to the hint route, one record each
    call,       \* a direct call of a solver function: its arguments and what it returned
    data_cache, \* _SOLVER_DATA_CACHE: shape id -> the run of _build_solver_data that made the entry
    thread,     \* the threads calling get_solver_data, one record each
    built,      \* history: shape id -> how many times _build_solver_data ran for it
    api         \* a call of a cache or queue method made while the store fails

\* The state of the solver module.
solverVars == <<call, data_cache, thread, built>>

vars == <<now, queue, proc, lease, saw, last, cache, hint, solverVars, api>>

----------------------------------------------------------------------------
(* Bounds of the model *)

\* The clock stops advancing at MaxTime.
MaxTime == 3601

\* Worker processes / concurrent callers.
Workers == {"w1", "w2"}

\* Clock increments: exactly the maximum lease age (not yet stale) and one
\* second more (stale).
TickSteps == {3600, 3601}

\* The (board_bits, stone_count, shape_id, allow_diagonals) arguments callers enqueue.
EnqInputs ==
    { <<{0, 1}, 2, "wiegleb", FALSE>>,
      <<{0, 1, 3}, 3, "english", TRUE>> }

\* include_solving as passed by callers other than solve_one / solve_all
\* (which pass True): the parameter's default.
DirectIncludeSolving == {FALSE}

----------------------------------------------------------------------------
(* Program constants *)

\* reset_stale_items(max_age_seconds=3600)
MAX_AGE_SECONDS == 3600

\* int(x.get('stone_count', 999))
DEFAULT_STONE_COUNT == 999

----------------------------------------------------------------------------
(* Python / DynamoDB primitives *)

None == <<>>
Some(v) == <<v>>

\* dict.get(attr, default)
Get(item, attr, default) == IF attr \in DOMAIN item THEN item[attr] ELSE default

\* datetime.isoformat / datetime.fromisoformat
isoformat(t) == <<t>>
Parseable(text) == Len(text) = 1

\* The item stored under a key, as a set (empty or a singleton).
ItemsAt(table, key) == {i \in table : i.board_state = key}

\* Table.put_item that would add the item next to the one with the same hash key.
PutItemKeep(table, item) == table \cup {item}

\* Table.put_item: replaces the item with the same hash key.
PutItem(table, item) == (table \ ItemsAt(table, item.board_state)) \cup {item}

\* Table.update_item with a SET expression: merges the attributes into the
\* item, creating the item when the key is absent (DynamoDB upsert).
UpdateItem(table, key, attrs) ==
    IF ItemsAt(table, key) = {}
    THEN table \cup {attrs @@ [board_state |-> key]}
    ELSE (table \ ItemsAt(table, key)) \cup {attrs @@ i : i \in ItemsAt(table, key)}

\* Table.delete_item
DeleteItem(table, key) == table \ ItemsAt(table, key)

\* '#s = :v' evaluated on the stored item; false when the item or attribute is absent.
StatusIs(table, key, v) ==
    \E i \in ItemsAt(table, key) : "status" \in DOMAIN i /\ i.status = v

\* All orderings of a finite set as sequences (a scan returns items in no
\* particular order).
Orderings(S) ==
    {f \in [1..Cardinality(S) -> S] : \A a, b \in 1..Cardinality(S) : a # b => f[a] # f[b]}

----------------------------------------------------------------------------
(* solver_queue.py *)

\* A key that leaves the variant out.
queue_key_NoVariant(board_bits, shape_id, allow_diagonals) ==
    IF shape_id = "wiegleb" THEN <<board_bits>> ELSE <<shape_id, board_bits>>

\* SolverQueue._queue_key: the segments the f-string joins with ':'.
queue_key(board_bits, shape_id, allow_diagonals) ==
    IF allow_diagonals
    THEN IF shape_id = "wiegleb" THEN <<"diag", board_bits>>
         ELSE <<"diag", shape_id, board_bits>>
    ELSE IF shape_id = "wiegleb" THEN <<board_bits>>
         ELSE <<shape_id, board_bits>>

\* int(raw_key.split(':')[-1]) if ':' in raw_key else int(raw_key)
ParseBits(raw_key) == raw_key[Len(raw_key)]

\* The keys as text: a sequence of tokens, each a word ("diag", a shape
\* id), the separator ":" or a decimal digit.
DIGITS == <<"0", "1", "2", "3", "4", "5", "6", "7", "8", "9">>

RECURSIVE BitsValue(_)
\* The integer whose set bits are the positions in bits.
BitsValue(bits) ==
    IF bits = {} THEN 0
    ELSE LET i == CHOOSE b \in bits : TRUE IN 2^i + BitsValue(bits \ {i})

RECURSIVE str_int(_)
\* str(n) of a non-negative int: its decimal digits.
str_int(n) ==
    IF n < 10 THEN <<DIGITS[n + 1]>> ELSE str_int(n \div 10) \o <<DIGITS[(n % 10) + 1]>>

RECURSIVE int_str(_)
\* int(text) of a text of decimal digits.
int_str(text) ==
    LET d == (CHOOSE k \in DOMAIN DIGITS : DIGITS[k] = text[Len(text)]) - 1
    IN  IF Len(text) = 1 THEN d ELSE int_str(SubSeq(text, 1, Len(text) - 1)) * 10 + d

\* The f-string of _queue_key / _cache_key on the segments of a key.
key_text(segments) ==
    IF Len(segments) = 1 THEN str_int(BitsValue(segments[1]))
    ELSE IF Len(segments) = 2 THEN <<segments[1], ":">> \o str_int(BitsValue(segments[2]))
    ELSE <<segments[1], ":", segments[2], ":">> \o str_int(BitsValue(segments[3]))

\* raw_key.split(':')[-1]
split_last(text) ==
    LET seps == {k \in DOMAIN text : text[k] = ":"}
        from == IF seps = {} THEN 0 ELSE CHOOSE k \in seps : \A l \in seps : l <= k
    IN  SubSeq(text, from + 1, Len(text))

\* solve_item / reset_stale_items:
\* int(raw_key.split(':')[-1]) if ':' in raw_key else int(raw_key)
parse_bits(text) ==
    IF \E k \in DOMAIN text : text[k] = ":" THEN int_str(split_last(text)) ELSE int_str(text)

\* Mutant: enqueue without its ConditionExpression.
EnqueueConditionMissing(table, key) == TRUE

\* Mutant: enqueue that also refuses to overwrite a Pending item.
EnqueueConditionNoPending(table, key) ==
    \/ ItemsAt(table, key) = {}
    \/ StatusIs(table, key, "failed")

\* The ConditionExpression of enqueue.
EnqueueCondition(table, key) ==
    \/ ItemsAt(table, key) = {}
    \/ StatusIs(table, key, "pending")
    \/ StatusIs(table, key, "failed")

\* SolverQueue.enqueue: the table after the call.
enqueue(table, board_bits, stone_count, shape_id, allow_diagonals, t) ==
    LET key == queue_key(board_bits, shape_id, allow_diagonals) IN
    IF EnqueueCondition(table, key)
    THEN PutItem(table, [board_state     |-> key,
                         stone_count     |-> stone_count,
                         shape_id        |-> shape_id,
                         allow_diagonals |-> allow_diagonals,
                         status          |-> "pending",
                         created_at      |-> isoformat(t),
                         updated_at      |-> isoformat(t)])
    ELSE table   \* ConditionalCheckFailedException: pass

\* SolverQueue.release: unconditional SET status = pending, updated_at = now.
release(table, board_bits, shape_id, allow_diagonals, t) ==
    UpdateItem(table, queue_key(board_bits, shape_id, allow_diagonals),
               [status |-> "pending", updated_at |-> isoformat(t)])

\* SolverQueue.mark_solved: delete_item by key, no condition.
mark_solved(table, board_bits, shape_id, allow_diagonals) ==
    DeleteItem(table, queue_key(board_bits, shape_id, allow_diagonals))

\* A mark_failed that keeps the item and stores the status Failed in it.
mark_failed_StoresStatus(table, board_bits, shape_id, allow_diagonals) ==
    UpdateItem(table, queue_key(board_bits, shape_id, allow_diagonals), [status |-> "failed"])

\* SolverQueue.mark_failed: delete_item by key, no condition.
mark_failed(table, board_bits, shape_id, allow_diagonals) ==
    DeleteItem(table, queue_key(board_bits, shape_id, allow_diagonals))

\* Mutant: the claim only requires the item to exist.
ClaimConditionExists(table, key) == ItemsAt(table, key) # {}

\* Mutant: the claim also accepts an item that is already Solving.
ClaimConditionOrSolving(table, key) ==
    StatusIs(table, key, "pending") \/ StatusIs(table, key, "solving")

\* The ConditionExpression of the claiming update_item.
ClaimCondition(table, key) == StatusIs(table, key, "pending")

\* SolverQueue.get_queue_stats: the counts by status and the total;
\* store_ok is false when the scan raises.
get_queue_stats(table, store_ok) ==
    LET base     == {"pending", "solving", "solved", "failed"}
        statuses == base \cup {Get(i, "status", "unknown") : i \in table}
    IN  IF store_ok
        THEN [st \in statuses |->
                 Cardinality({i \in table : Get(i, "status", "unknown") = st})]
             @@ [total |-> Cardinality(table)]
        ELSE [st \in base \cup {"total"} |-> 0]

\* The conditional update of claim_next / get_all_claimable.
ClaimUpdate(table, key, t) ==
    UpdateItem(table, key, [status |-> "solving", updated_at |-> isoformat(t)])

\* A claim_next that renews the lease of the Solving item it returns.
ReturnSolvingRenews(table, key, t) ==
    UpdateItem(table, key, [updated_at |-> isoformat(t)])

\* claim_next, `if chosen.get('status') == 'solving': return chosen`: the
\* table after it; nothing is written.
ReturnSolving(table, key, t) == table

\* A reset_stale_items that finds no item stale.
IsStaleNever(item, cutoff, max_age_seconds) == FALSE

\* reset_stale_items: age > max_age_seconds, an unparseable updated_at counting
\* as datetime.min (older than any max age).
IsStale(item, cutoff, max_age_seconds) ==
    LET updated_at == Get(item, "updated_at", <<>>) IN
    IF Parseable(updated_at) THEN cutoff - updated_at[1] > max_age_seconds ELSE TRUE

\* The release arguments reset_stale_items derives from a scanned item.
ReleaseArgs(item) ==
    <<ParseBits(item.board_state), Get(item, "shape_id", "wiegleb"),
      Get(item, "allow_diagonals", FALSE)>>

\* The scan filters.
ScanStatus(table, statuses) ==
    {i \in table : "status" \in DOMAIN i /\ i.status \in statuses}

\* The sort key of claim_next: pending before solving, then stone_count.
StatusRank(item) == IF Get(item, "status", "") = "pending" THEN 0 ELSE 1
StoneKey(item) == Get(item, "stone_count", DEFAULT_STONE_COUNT)

\* A sort that puts the boards with more stones first.
ClaimOrderLeqMostStones(a, b) ==
    \/ StatusRank(a) < StatusRank(b)
    \/ StatusRank(a) = StatusRank(b) /\ StoneKey(a) >= StoneKey(b)

\* items.sort(key=...): a sorts before b, or they compare equal.
ClaimOrderLeq(a, b) ==
    \/ StatusRank(a) < StatusRank(b)
    \/ StatusRank(a) = StatusRank(b) /\ StoneKey(a) <= StoneKey(b)

----------------------------------------------------------------------------
(* Worker processes (solve_queue.py) and direct callers of claim_next *)

\* _active_items is a field of the process record: it is a per-process global.
InitProc ==
    [pc     |-> "idle",   \* position in the code
     cmd    |-> "",       \* claim_next | solve_one | solve_all
     incl   |-> FALSE,    \* include_solving
     stale  |-> <<>>,     \* reset_stale_items: release arguments still to process
     items  |-> <<>>,     \* the scanned items held by the caller
     idx    |-> 0,        \* loop index into items
     ret    |-> None,     \* claim_next's return value
     active |-> <<>>,     \* _active_items
     todo   |-> <<>>,     \* _signal_handler: list(_active_items) still to release
     joined |-> FALSE,    \* history: claim_next returned an item it did not claim
     exit   |-> ""]       \* how the process ended

\* What the code reads of a scanned item after the scan: every attribute
\* but the two timestamps.
Snapshot(item) == [a \in DOMAIN item \ {"created_at", "updated_at"} |-> item[a]]

\* The value of last after a step that is not a recorded queue write.
NoStep == [op |-> "none"]

\* A recorded queue write: the operation, the caller (None for an API call
\* outside the processes), the key and the item found under it (a set).
Wrote(op, who, key, table) == [op |-> op, who |-> who, key |-> key, before |-> ItemsAt(table, key)]

Running(w) == proc[w].pc \notin {"idle", "returned", "exited", "dead"}

\* History bookkeeping for a write that takes the table from t1 to t2: the
\* lease period of a key ends when its item leaves Solving or is deleted.
PeriodEnds(key, t1, t2) ==
    \/ StatusIs(t1, key, "solving") /\ ~StatusIs(t2, key, "solving")
    \/ ItemsAt(t1, key) # {} /\ ItemsAt(t2, key) = {}
HistoryAfter(h, t1, t2) == {p \in h : ~PeriodEnds(p[1], t1, t2)}

\* A process that has ended: its memory is gone, how it ended is kept.
Ended(p, pc, how) == [InitProc EXCEPT !.pc = pc, !.cmd = p.cmd, !.exit = how]

\* A claim_next that goes on like get_all_claimable and claims every item.
AfterResetClaimAll(p) == "ga_scan"

\* Where a caller continues after reset_stale_items.
AfterReset(p) == IF p.cmd \in {"solve_all", "get_all_claimable"} THEN "ga_scan" ELSE "cn_scan"

\* What the caller of claim_next does with its return value: a direct call
\* has returned; solve_one exits on None and calls solve_item otherwise.
AfterClaim(p, ret) ==
    IF p.cmd = "claim_next"
    THEN [p EXCEPT !.pc = "returned", !.ret = ret, !.items = <<>>]
    ELSE IF ret = None
         THEN Ended(p, "exited", "ok")
         ELSE [p EXCEPT !.pc = "si_start", !.ret = ret, !.items = ret, !.idx = 1]

StartClaimNext(w, include_solving) ==
    /\ proc[w].pc = "idle"
    /\ proc' = [proc EXCEPT ![w] = [InitProc EXCEPT !.pc = "rs_scan", !.cmd = "claim_next",
                                                    !.incl = include_solving]]
    /\ UNCHANGED <<now, queue, lease, saw, cache, hint, solverVars, api>>
    /\ last' = NoStep

\* solve_one: claim_next(include_solving=True)
StartSolveOne(w) ==
    /\ proc[w].pc = "idle"
    /\ proc' = [proc EXCEPT ![w] = [InitProc EXCEPT !.pc = "rs_scan", !.cmd = "solve_one",
                                                    !.incl = TRUE]]
    /\ UNCHANGED <<now, queue, lease, saw, cache, hint, solverVars, api>>
    /\ last' = NoStep

\* solve_all(1): get_all_claimable(include_solving=True)
StartSolveAll(w) ==
    /\ proc[w].pc = "idle"
    /\ proc' = [proc EXCEPT ![w] = [InitProc EXCEPT !.pc = "rs_scan", !.cmd = "solve_all",
                                                    !.incl = TRUE]]
    /\ UNCHANGED <<now, queue, lease, saw, cache, hint, solverVars, api>>
    /\ last' = NoStep

\* reset_stale_items, the scan and the staleness test (cutoff = now).
ResetStaleScan(w) ==
    /\ proc[w].pc = "rs_scan"
    /\ LET staleItems == {i \in ScanStatus(queue, {"solving"}) :
                              IsStale(i, now, MAX_AGE_SECONDS)} IN
       \E ord \in Orderings(staleItems) :
          LET args == [n \in 1..Len(ord) |-> ReleaseArgs(ord[n])] IN
          proc' = [proc EXCEPT ![w].stale = args,
                               ![w].pc = IF args = <<>> THEN AfterReset(proc[w])
                                         ELSE "rs_release"]
    /\ UNCHANGED <<now, queue, lease, saw, cache, hint, solverVars, api>>
    /\ last' = NoStep

\* reset_stale_items, one iteration of the loop: self.release(...).
ResetStaleRelease(w) ==
    /\ proc[w].pc = "rs_release"
    /\ LET a == Head(proc[w].stale)
           q2 == release(queue, a[1], a[2], a[3], now) IN
       /\ queue' = q2
       /\ lease' = HistoryAfter(lease, queue, q2)
       /\ saw' = HistoryAfter(saw, queue, q2)
       /\ last' = Wrote("reset_release", Some(w), queue_key(a[1], a[2], a[3]), queue)
                    @@ [holders |-> {p[2] : p \in {h \in lease :
                                                    h[1] = queue_key(a[1], a[2], a[3])}}]
       /\ proc' = [proc EXCEPT ![w].stale = Tail(proc[w].stale),
                               ![w].pc = IF Tail(proc[w].stale) = <<>>
                                         THEN AfterReset(proc[w]) ELSE "rs_release"]
    /\ UNCHANGED <<now, cache, hint, solverVars, api>>

\* claim_next, from the scan to the choice of items[0].
ClaimNextScan(w) ==
    /\ proc[w].pc = "cn_scan"
    /\ LET found == ScanStatus(queue, IF proc[w].incl THEN {"pending", "solving"}
                                      ELSE {"pending"}) IN
       IF found = {}
       THEN /\ proc' = [proc EXCEPT ![w] = AfterClaim(proc[w], None)]
            /\ queue' = queue
            /\ saw' = saw
       ELSE \E chosen \in found :
               /\ \A o \in found : ClaimOrderLeq(chosen, o)
               /\ IF chosen.status = "solving"
                  THEN /\ proc' = [proc EXCEPT ![w] =
                                     [AfterClaim(proc[w], Some(Snapshot(chosen)))
                                        EXCEPT !.joined = TRUE]]
                       /\ queue' = ReturnSolving(queue, chosen.board_state, now)
                       /\ saw' = saw
                  ELSE /\ proc' = [proc EXCEPT ![w].pc = "cn_update",
                                               ![w].items = <<Snapshot(chosen)>>]
                       /\ queue' = queue
                       /\ saw' = IF proc[w].cmd = "claim_next" /\ ~proc[w].incl
                                 THEN saw \cup {<<chosen.board_state, w>>} ELSE saw
    /\ UNCHANGED <<now, lease, cache, hint, solverVars, api>>
    /\ last' = NoStep

\* claim_next, the conditional update and the return.
ClaimNextUpdate(w) ==
    /\ proc[w].pc = "cn_update"
    /\ LET chosen == proc[w].items[1]
           key == chosen.board_state IN
       IF ClaimCondition(queue, key)
       THEN /\ queue' = ClaimUpdate(queue, key, now)
            /\ lease' = lease \cup {<<key, w>>}
            /\ proc' = [proc EXCEPT ![w] =
                          AfterClaim(proc[w], Some([chosen EXCEPT !.status = "solving"]))]
       ELSE \* ConditionalCheckFailedException: return None
            /\ proc' = [proc EXCEPT ![w] = AfterClaim(proc[w], None)]
            /\ UNCHANGED <<queue, lease>>
    /\ UNCHANGED <<now, saw, cache, hint, solverVars, api>>
    /\ last' = NoStep

\* A direct call of get_all_claimable(include_solving).
StartGetAll(w, include_solving) ==
    /\ proc[w].pc = "idle"
    /\ proc' = [proc EXCEPT ![w] = [InitProc EXCEPT !.pc = "rs_scan",
                                                    !.cmd = "get_all_claimable",
                                                    !.incl = include_solving]]
    /\ UNCHANGED <<now, queue, lease, saw, cache, hint, solverVars, api>>
    /\ last' = NoStep

\* A loop that marks the item Solving in the list whether or not its update
\* went through.
ClaimedStatusAlways(won, status) == "solving"

\* item['status'] = 'solving' after the update_item; `except ClientError:
\* pass` leaves the item in the list as it was scanned.
ClaimedStatus(won, status) == IF won THEN "solving" ELSE status

\* get_all_claimable, the scan and the sort by stone_count.
GetAllScan(w) ==
    /\ proc[w].pc = "ga_scan"
    /\ LET found == ScanStatus(queue, IF proc[w].incl THEN {"pending", "solving"}
                                      ELSE {"pending"}) IN
       \E ord \in Orderings(found) :
          /\ \A a, b \in 1..Len(ord) : a < b => StoneKey(ord[a]) <= StoneKey(ord[b])
          /\ proc' = [proc EXCEPT
                 ![w] = IF ord = <<>>
                        THEN Ended(@, "exited", "ok")   \* No items in queue.
                        ELSE [@ EXCEPT !.pc = "ga_claim", !.idx = 1,
                                       !.items = [n \in 1..Len(ord) |-> Snapshot(ord[n])]]]
    /\ UNCHANGED <<now, queue, lease, saw, cache, hint, solverVars, api>>
    /\ last' = NoStep

\* get_all_claimable, one iteration of the claiming loop; after the last one
\* solve_all goes on to solve_item for every item of the list.
GetAllClaim(w) ==
    /\ proc[w].pc = "ga_claim"
    /\ LET n == proc[w].idx
           item == proc[w].items[n]
           key == item.board_state
           won == item.status = "pending" /\ ClaimCondition(queue, key)
           final == n = Len(proc[w].items) IN
       /\ queue' = IF won THEN ClaimUpdate(queue, key, now) ELSE queue
       /\ lease' = IF won THEN lease \cup {<<key, w>>} ELSE lease
       /\ proc' = [proc EXCEPT
              ![w].items[n].status = ClaimedStatus(won, @),
              ![w].idx = IF final THEN 1 ELSE n + 1,
              ![w].pc = IF ~final THEN "ga_claim"
                        ELSE IF proc[w].cmd = "get_all_claimable" THEN "returned"  \* return items
                        ELSE "si_start"]
    /\ UNCHANGED <<now, saw, cache, hint, solverVars, api>>
    /\ last' = NoStep

\* solve_item up to _active_items.append: int(item['stone_count']) raises
\* KeyError on an item without the attribute and the process ends.
SolveItemStart(w) ==
    /\ proc[w].pc = "si_start"
    /\ LET item == proc[w].items[proc[w].idx] IN
       proc' = [proc EXCEPT
              ![w] = IF "stone_count" \in DOMAIN item
                     THEN [@ EXCEPT !.pc = "si_solve",
                                    !.active = Append(@, ReleaseArgs(item))]
                     ELSE Ended(@, "dead", "exception")]
    /\ UNCHANGED <<now, queue, lease, saw, cache, hint, solverVars, api>>
    /\ last' = NoStep

\* solve_item, the call solve(board, time_limit=..., shape_id=...,
\* allow_diagonals=...): solve() has no parameter allow_diagonals, so the call
\* raises TypeError; nothing catches it and the process ends with the item
\* still registered and still Solving.
SolveItemCall(w) ==
    /\ proc[w].pc = "si_solve"
    /\ proc' = [proc EXCEPT ![w] = Ended(@, "dead", "exception")]
    /\ UNCHANGED <<now, queue, lease, saw, cache, hint, solverVars, api>>
    /\ last' = NoStep

\* SIGTERM / SIGINT delivered to a solve_queue.py process: _signal_handler
\* starts with list(_active_items).
Signal(w) ==
    /\ Running(w)
    /\ proc[w].cmd \in {"solve_one", "solve_all"}
    /\ proc[w].pc # "sig_release"
    /\ proc' = [proc EXCEPT ![w].pc = "sig_release", ![w].todo = proc[w].active]
    /\ UNCHANGED <<now, queue, lease, saw, cache, hint, solverVars, api>>
    /\ last' = NoStep

\* _signal_handler, one iteration: solver_queue.release(bits, shape_id, allow_diag).
SignalRelease(w) ==
    /\ proc[w].pc = "sig_release"
    /\ proc[w].todo # <<>>
    /\ LET a == Head(proc[w].todo)
           q2 == release(queue, a[1], a[2], a[3], now) IN
       /\ queue' = q2
       /\ lease' = HistoryAfter(lease, queue, q2)
       /\ saw' = HistoryAfter(saw, queue, q2)
       /\ proc' = [proc EXCEPT ![w].todo = Tail(proc[w].todo)]
    /\ UNCHANGED <<now, cache, hint, solverVars, api>>
    /\ last' = NoStep

\* _signal_handler: sys.exit(1)
SignalExit(w) ==
    /\ proc[w].pc = "sig_release"
    /\ proc[w].todo = <<>>
    /\ proc' = [proc EXCEPT ![w] = Ended(@, "dead", "signal")]
    /\ UNCHANGED <<now, queue, lease, saw, cache, hint, solverVars, api>>
    /\ last' = NoStep

\* The process is killed outright (SIGKILL, host loss) or dies of an uncaught
\* exception at any point: no handler runs.
Crash(w) ==
    /\ Running(w)
    /\ proc' = [proc EXCEPT ![w] = Ended(@, "dead", "exception")]
    /\ UNCHANGED <<now, queue, lease, saw, cache, hint, solverVars, api>>
    /\ last' = NoStep

\* solve_queue.py is run again in the place of a process that has ended.
Restart(w) ==
    /\ proc[w].pc \in {"exited", "dead"}
    /\ proc' = [proc EXCEPT ![w] = InitProc]
    /\ UNCHANGED <<now, queue, lease, saw, cache, hint, solverVars, api>>
    /\ last' = NoStep

\* A timestamp d seconds further in the past; one that is older than every
\* age the code compares with is kept at 0.
Aged(item, d) ==
    [a \in DOMAIN item |->
        IF a \in {"created_at", "updated_at"} /\ Parseable(item[a])
        THEN isoformat(IF item[a][1] > d THEN item[a][1] - d ELSE 0)
        ELSE item[a]]

\* Time passes without bound: the clock reads MaxTime throughout and the
\* timestamps of the table move back by d instead of the clock moving on.
Elapse(d) ==
    /\ now = MaxTime
    /\ queue' = {Aged(i, d) : i \in queue}
    /\ UNCHANGED <<now, proc, lease, saw, cache, hint, solverVars, api>>
    /\ last' = NoStep

\* The caller of claim_next finishes the item it was given with
\* mark_solved(bits, shape_id, allow_diagonals).
CallerMarkSolved(w) ==
    /\ proc[w].pc = "returned"
    /\ proc[w].ret # None
    /\ LET a  == ReleaseArgs(proc[w].ret[1])
           q2 == mark_solved(queue, a[1], a[2], a[3]) IN
       /\ queue' = q2
       /\ lease' = HistoryAfter(lease, queue, q2)
       /\ saw' = HistoryAfter(saw, queue, q2)
       /\ last' = Wrote("mark_solved", Some(w), queue_key(a[1], a[2], a[3]), queue)
    /\ proc' = [proc EXCEPT ![w] = Ended(@, "exited", "ok")]
    /\ UNCHANGED <<now, cache, hint, solverVars, api>>

\* The caller finishes the item with mark_failed(bits, shape_id, allow_diagonals).
CallerMarkFailed(w) ==
    /\ proc[w].pc = "returned"
    /\ proc[w].ret # None
    /\ LET a  == ReleaseArgs(proc[w].ret[1])
           q2 == mark_failed(queue, a[1], a[2], a[3]) IN
       /\ queue' = q2
       /\ lease' = HistoryAfter(lease, queue, q2)
       /\ saw' = HistoryAfter(saw, queue, q2)
       /\ last' = Wrote("mark_failed", Some(w), queue_key(a[1], a[2], a[3]), queue)
    /\ proc' = [proc EXCEPT ![w] = Ended(@, "exited", "ok")]
    /\ UNCHANGED <<now, cache, hint, solverVars, api>>

\* The caller gives the item back with release(bits, shape_id, allow_diagonals).
CallerRelease(w) ==
    /\ proc[w].pc = "returned"
    /\ proc[w].ret # None
    /\ LET a  == ReleaseArgs(proc[w].ret[1])
           q2 == release(queue, a[1], a[2], a[3], now) IN
       /\ queue' = q2
       /\ lease' = HistoryAfter(lease, queue, q2)
       /\ saw' = HistoryAfter(saw, queue, q2)
       /\ last' = Wrote("release", Some(w), queue_key(a[1], a[2], a[3]), queue)
    /\ proc' = [proc EXCEPT ![w] = Ended(@, "exited", "ok")]
    /\ UNCHANGED <<now, cache, hint, solverVars, api>>

\* main --stats: show_stats prints solver_queue.get_queue_stats().
ShowStats(w) ==
    /\ proc[w].pc = "idle"
    /\ \E store_ok \in BOOLEAN :
          proc' = [proc EXCEPT ![w] = [Ended([InitProc EXCEPT !.cmd = "stats"], "exited", "ok")
                                         EXCEPT !.ret = Some(get_queue_stats(queue, store_ok))]]
    /\ UNCHANGED <<now, queue, lease, saw, cache, hint, solverVars, api>>
    /\ last' = NoStep

\* main --cleanup: solver_queue.cleanup_completed()
StartCleanup(w) ==
    /\ proc[w].pc = "idle"
    /\ proc' = [proc EXCEPT ![w] = [InitProc EXCEPT !.pc = "cl_scan", !.cmd = "cleanup"]]
    /\ UNCHANGED <<now, queue, lease, saw, cache, hint, solverVars, api>>
    /\ last' = NoStep

\* cleanup_completed, the scan for solved and failed items: `return 0` when
\* there is none.
CleanupScan(w) ==
    /\ proc[w].pc = "cl_scan"
    /\ \E ord \in Orderings(ScanStatus(queue, {"solved", "failed"})) :
          proc' = [proc EXCEPT
             ![w] = IF ord = <<>>
                    THEN [Ended(@, "exited", "ok") EXCEPT !.ret = Some(0)]
                    ELSE [@ EXCEPT !.pc = "cl_delete", !.idx = 1,
                                   !.items = [n \in 1..Len(ord) |-> Snapshot(ord[n])]]]
    /\ UNCHANGED <<now, queue, lease, saw, cache, hint, solverVars, api>>
    /\ last' = NoStep

\* cleanup_completed, one delete of the batch: delete_item by key alone;
\* after the last one `return len(items)`.
CleanupDelete(w) ==
    /\ proc[w].pc = "cl_delete"
    /\ LET n     == proc[w].idx
           key   == proc[w].items[n].board_state
           q2    == DeleteItem(queue, key)
           final == n = Len(proc[w].items) IN
       /\ queue' = q2
       /\ lease' = HistoryAfter(lease, queue, q2)
       /\ saw' = HistoryAfter(saw, queue, q2)
       /\ last' = Wrote("cleanup_delete", Some(w), key, queue)
       /\ proc' = [proc EXCEPT
              ![w] = IF final
                     THEN [Ended(@, "exited", "ok") EXCEPT !.ret = Some(Len(proc[w].items))]
                     ELSE [@ EXCEPT !.idx = n + 1]]
    /\ UNCHANGED <<now, cache, hint, solverVars, api>>

\* solve_queue.py --reset-stuck: main calls reset_stuck.
StartResetStuck(w) ==
    /\ proc[w].pc = "idle"
    /\ proc' = [proc EXCEPT ![w] = [InitProc EXCEPT !.pc = "stuck_scan", !.cmd = "reset_stuck"]]
    /\ UNCHANGED <<now, queue, lease, saw, cache, hint, solverVars, api>>
    /\ last' = NoStep

\* reset_stuck, the scan for solving items: `return` when there is none.
ResetStuckScan(w) ==
    /\ proc[w].pc = "stuck_scan"
    /\ \E ord \in Orderings(ScanStatus(queue, {"solving"})) :
          proc' = [proc EXCEPT
             ![w] = IF ord = <<>>
                    THEN Ended(@, "exited", "ok")
                    ELSE [@ EXCEPT !.pc = "stuck_delete", !.idx = 1,
                                   !.items = [n \in 1..Len(ord) |-> Snapshot(ord[n])]]]
    /\ UNCHANGED <<now, queue, lease, saw, cache, hint, solverVars, api>>
    /\ last' = NoStep

\* reset_stuck, one turn of its loop: delete_item by key alone.
ResetStuckDelete(w) ==
    /\ proc[w].pc = "stuck_delete"
    /\ LET n     == proc[w].idx
           key   == proc[w].items[n].board_state
           q2    == DeleteItem(queue, key)
           final == n = Len(proc[w].items) IN
       /\ queue' = q2
       /\ lease' = HistoryAfter(lease, queue, q2)
       /\ saw' = HistoryAfter(saw, queue, q2)
       /\ last' = Wrote("reset_stuck", Some(w), key, queue)
       /\ proc' = [proc EXCEPT
              ![w] = IF final THEN Ended(@, "exited", "ok")
                     ELSE [@ EXCEPT !.idx = n + 1]]
    /\ UNCHANGED <<now, cache, hint, solverVars, api>>

\* A caller enqueues a board state.
Enqueue(inp) ==
    /\ LET q2 == enqueue(queue, inp[1], inp[2], inp[3], inp[4], now) IN
       /\ queue' = q2
       /\ lease' = HistoryAfter(lease, queue, q2)
       /\ saw' = HistoryAfter(saw, queue, q2)
       /\ last' = Wrote("enqueue", None, queue_key(inp[1], inp[3], inp[4]), queue)
                    @@ [stone_count |-> inp[2]]
    /\ UNCHANGED <<now, proc, cache, hint, solverVars, api>>

\* Time passes.
Tick(d) ==
    /\ now + d <= MaxTime
    /\ now' = now + d
    /\ UNCHANGED <<queue, proc, lease, saw, cache, hint, solverVars, api>>
    /\ last' = NoStep

----------------------------------------------------------------------------
(* board_shapes.py *)

\* _compute_valid_cells(rows, cols, is_valid): the valid (row, col) pairs in
\* row-major order.
compute_valid_cells(rows, cols, is_valid) ==
    LET cells == [k \in 1..(rows * cols) |-> <<(k - 1) \div cols, (k - 1) % cols>>]
    IN  SelectSeq(cells, LAMBDA rc : is_valid[rc])

english_valid(r, c) ==
    IF r < 0 \/ r > 6 \/ c < 0 \/ c > 6 THEN FALSE
    ELSE IF r < 2 /\ c < 2 THEN FALSE
    ELSE IF r < 2 /\ c > 4 THEN FALSE
    ELSE IF r > 4 /\ c < 2 THEN FALSE
    ELSE IF r > 4 /\ c > 4 THEN FALSE
    ELSE TRUE

wiegleb_valid(r, c) ==
    IF r < 0 \/ r > 8 \/ c < 0 \/ c > 8 THEN FALSE
    ELSE IF r < 3 /\ c < 3 THEN FALSE
    ELSE IF r < 3 /\ c > 5 THEN FALSE
    ELSE IF r > 5 /\ c < 3 THEN FALSE
    ELSE IF r > 5 /\ c > 5 THEN FALSE
    ELSE TRUE

european_valid(r, c) ==
    IF english_valid(r, c) THEN TRUE
    ELSE IF <<r, c>> \in {<<1, 1>>, <<1, 5>>, <<5, 1>>, <<5, 5>>} THEN TRUE
    ELSE FALSE

asymmetrical_valid(r, c) ==
    IF r < 0 \/ r > 7 \/ c < 0 \/ c > 7 THEN FALSE
    ELSE IF 3 <= r /\ r <= 5 THEN TRUE
    ELSE IF 2 <= c /\ c <= 4 THEN TRUE
    ELSE FALSE

\* abs(x)
Abs(x) == IF x < 0 THEN -x ELSE x

diamond_valid(r, c) ==
    IF r < 0 \/ r > 8 \/ c < 0 \/ c > 8 THEN FALSE
    ELSE Abs(r - 4) + Abs(c - 4) <= 4

\* The predicates as the values handed to _compute_valid_cells.
EuropeanValid == [rc \in (0..6) \X (0..6) |-> european_valid(rc[1], rc[2])]
AsymmetricalValid == [rc \in (0..7) \X (0..7) |-> asymmetrical_valid(rc[1], rc[2])]
DiamondValid == [rc \in (0..8) \X (0..8) |-> diamond_valid(rc[1], rc[2])]
EnglishValid == [rc \in (0..6) \X (0..6) |-> english_valid(rc[1], rc[2])]
WieglebValid == [rc \in (0..8) \X (0..8) |-> wiegleb_valid(rc[1], rc[2])]

BOARD_SHAPES ==
    [wiegleb |-> [rows |-> 9, cols |-> 9,
                  valid_cells |-> compute_valid_cells(9, 9, WieglebValid)],
     english |-> [rows |-> 7, cols |-> 7,
                  valid_cells |-> compute_valid_cells(7, 7, EnglishValid)],
     european |-> [rows |-> 7, cols |-> 7,
                   valid_cells |-> compute_valid_cells(7, 7, EuropeanValid)],
     asymmetrical |-> [rows |-> 8, cols |-> 8,
                       valid_cells |-> compute_valid_cells(8, 8, AsymmetricalValid)],
     diamond |-> [rows |-> 9, cols |-> 9,
                  valid_cells |-> compute_valid_cells(9, 9, DiamondValid)]]

----------------------------------------------------------------------------
(* solver.py *)

\* A move table without the jumps along a row.
DIRECTIONS_ColumnOnly == << <<-2, 0>>, <<2, 0>> >>

\* Directions: (row_delta, col_delta)
DIRECTIONS == << <<-2, 0>>, <<2, 0>>, <<0, -2>>, <<0, 2>> >>

\* The dfs looks at the clock on every 4096th call (check_interval & 4095 == 0).
CHECK_EVERY == 4096

\* The transposition table stops growing at 1_000_000 states.
MAX_FAILED == 1000000

\* 1 << i, as the bit position i.
Bit(i) == i

\* The element of a singleton set: The({e : v \in {d}}) computes d once and
\* binds it to v in e.
The(S) == CHOOSE only \in S : TRUE

\* The cell a jump from cell in direction dir lands on, and the cell it jumps over.
Landing(cell, dir) == <<cell[1] + dir[1], cell[2] + dir[2]>>

\* A table that takes the start cell for the jumped cell.
JumpedIsStart(cell, dir) == cell

Jumped(cell, dir)  == <<cell[1] + (dir[1] \div 2), cell[2] + (dir[2] \div 2)>>

\* The tuple appended to precomputed_moves for a jump from cell in direction dir.
MoveEntry(cell_index, cell, dir) ==
    [from_bit |-> Bit(cell_index[cell]),
     to_bit   |-> Bit(cell_index[Landing(cell, dir)]),
     jump_bit |-> Bit(cell_index[Jumped(cell, dir)]),
     from_row |-> cell[1], from_col |-> cell[2],
     to_row   |-> Landing(cell, dir)[1], to_col |-> Landing(cell, dir)[2],
     jump_row |-> Jumped(cell, dir)[1], jump_col |-> Jumped(cell, dir)[2]]

\* for r, c in valid_cells: for dr, dc in DIRECTIONS: the (cell, direction)
\* pairs in loop order.
CellDirections(valid_cells) ==
    [k \in 1..(Len(valid_cells) * Len(DIRECTIONS)) |->
        [cell |-> valid_cells[((k - 1) \div Len(DIRECTIONS)) + 1],
         dir  |-> DIRECTIONS[((k - 1) % Len(DIRECTIONS)) + 1]]]

\* _build_solver_data: (valid_cells, cell_index, precomputed_moves) of a shape.
build_solver_data(shape_id) ==
    The({ The({ The({ [valid_cells |-> valid_cells,
                       cell_index  |-> cell_index,
                       precomputed_moves |->
                           [k \in DOMAIN kept |->
                               MoveEntry(cell_index, kept[k].cell, kept[k].dir)]] :
                      kept \in {SelectSeq(CellDirections(valid_cells),
                                   LAMBDA p : Landing(p.cell, p.dir) \in DOMAIN cell_index)} }) :
                cell_index \in {[rc \in {valid_cells[i] : i \in DOMAIN valid_cells} |->
                                   (CHOOSE i \in DOMAIN valid_cells : valid_cells[i] = rc) - 1]} }) :
          valid_cells \in {BOARD_SHAPES[shape_id].valid_cells} })

\* The (cell, direction) pairs of the loop at which cell_index[(jump_r, jump_c)]
\* raises KeyError: the landing cell is valid and the jumped cell is not.
MissingIndex(shape_id) ==
    LET valid_cells == BOARD_SHAPES[shape_id].valid_cells
        valid_set   == {valid_cells[i] : i \in DOMAIN valid_cells}
        pairs       == CellDirections(valid_cells)
    IN  {pairs[k] : k \in {j \in DOMAIN pairs :
                              /\ Landing(pairs[j].cell, pairs[j].dir) \in valid_set
                              /\ Jumped(pairs[j].cell, pairs[j].dir) \notin valid_set}}

\* _SOLVER_DATA_CACHE, filled for every shape.
SOLVER_DATA_CACHE ==
    [wiegleb |-> build_solver_data("wiegleb"),
     english |-> build_solver_data("english"),
     european |-> build_solver_data("european"),
     asymmetrical |-> build_solver_data("asymmetrical"),
     diamond |-> build_solver_data("diamond")]

get_solver_data(shape_id) == SOLVER_DATA_CACHE[shape_id]

\* The cells of a grid (a function from (row, col) to a Boolean) that hold True.
TrueCells(grid) == {rc \in DOMAIN grid : grid[rc]}

\* _bits_to_board: a rows x cols grid of False with board[r][c] = True for
\* every valid cell (r, c) whose bit i is set in bits.
bits_to_board(bits, shape_id) ==
    LET shape == BOARD_SHAPES[shape_id]
        valid_cells == shape.valid_cells
    IN  [rc \in (0..(shape.rows - 1)) \X (0..(shape.cols - 1)) |->
            \E i \in DOMAIN valid_cells : valid_cells[i] = rc /\ Bit(i - 1) \in bits]

\* An encoding that numbers the cells from 1.
board_to_bits_FromOne(board, shape_id) ==
    LET valid_cells == get_solver_data(shape_id).valid_cells
    IN  {Bit(i) : i \in {j \in DOMAIN valid_cells : valid_cells[j] \in board}}

\* _board_to_bits: board is the set of the (row, col) cells that hold True.
board_to_bits(board, shape_id) ==
    LET valid_cells == get_solver_data(shape_id).valid_cells
    IN  {Bit(i - 1) : i \in {j \in DOMAIN valid_cells : valid_cells[j] \in board}}

\* The move dict the dfs appends to the solution.
MoveDict(m) ==
    [from_row |-> m.from_row, from_col |-> m.from_col,
     to_row   |-> m.to_row,   to_col   |-> m.to_col,
     jump_row |-> m.jump_row, jump_col |-> m.jump_col]

\* A table entry can be played on state: from and jumped cell occupied, landing cell free.
Playable(state, m) ==
    /\ m.from_bit \in state
    /\ m.to_bit \notin state
    /\ m.jump_bit \in state

\* A jump that leaves the jumped piece on the board.
NewStateKeepsJumped(state, m) == (state \ {m.from_bit}) \cup {m.to_bit}

\* (state & ~from_bit & ~jump_bit) | to_bit
NewState(state, m) == (state \ {m.from_bit, m.jump_bit}) \cup {m.to_bit}

\* time.monotonic() > deadline at the check made on call number check_interval:
\* the clock passes the deadline before check number expire_at (0: never).
PastDeadline(ctl, check_interval) ==
    /\ ctl.expire_at > 0
    /\ check_interval \div CHECK_EVERY >= ctl.expire_at

\* A memo that takes a state for failed when a state with as many pieces failed.
InFailedByCount(failed, state) ==
    \E f \in failed : Cardinality(f) = Cardinality(state)

\* if state in failed
InFailed(failed, state) == state \in failed

\* A memo that also takes in the states a search left when it ran out of time.
MemoAdmitsLate(timed_out, size, max_failed) == size < max_failed

\* if not timed_out and len(failed) < 1_000_000
MemoAdmits(timed_out, size, max_failed) == ~timed_out /\ size < max_failed

RECURSIVE dfs(_, _, _, _)
RECURSIVE dfs_moves(_, _, _, _, _)

\* dfs(state, remaining) of solve; st holds the nonlocals check_interval,
\* timed_out, failed and solution (and hits, the number of calls the memo
\* answered).  Yields the return value and the nonlocals.  ctl.max_failed is
\* the size at which the memo stops growing.  History: applied counts the
\* moves appended to solution, at_deadline keeps failed and applied as they
\* were when the deadline was seen to have passed.
dfs(ctl, state, remaining, st) ==
    IF remaining = 1 THEN [found |-> TRUE, st |-> st]
    ELSE
      LET st1 == IF ctl.has_time_limit
                 THEN [st EXCEPT !.check_interval = @ + 1] ELSE st
      IN  IF /\ ctl.has_time_limit
             /\ st1.check_interval % CHECK_EVERY = 0
             /\ PastDeadline(ctl, st1.check_interval)
          THEN [found |-> FALSE,
                st |-> [st1 EXCEPT !.timed_out = TRUE,
                                   !.at_deadline = Some([failed |-> st1.failed,
                                                         applied |-> st1.applied])]]
          ELSE IF ctl.has_time_limit /\ st1.timed_out
          THEN [found |-> FALSE, st |-> st1]
          ELSE IF InFailed(st1.failed, state)
          THEN [found |-> FALSE, st |-> [st1 EXCEPT !.hits = @ + 1]]
          ELSE
            LET r == dfs_moves(ctl, state, remaining,
                               SelectSeq(ctl.moves_list, LAMBDA m : Playable(state, m)), st1)
            IN  IF r.found THEN r
                ELSE IF MemoAdmits(r.st.timed_out, Cardinality(r.st.failed), ctl.max_failed)
                THEN [found |-> FALSE, st |-> [r.st EXCEPT !.failed = @ \cup {state}]]
                ELSE [found |-> FALSE, st |-> r.st]

\* The loop of dfs over the playable entries of the move table, in table order.
dfs_moves(ctl, state, remaining, todo, st) ==
    IF todo = <<>> THEN [found |-> FALSE, st |-> st]
    ELSE
      LET m  == Head(todo)
          r  == dfs(ctl, NewState(state, m), remaining - 1,
                    [st EXCEPT !.solution = Append(@, MoveDict(m)), !.applied = @ + 1])
      IN  IF r.found THEN r
          ELSE
            LET popped == [r.st EXCEPT !.solution = SubSeq(@, 1, Len(@) - 1)]
            IN  IF popped.timed_out THEN [found |-> FALSE, st |-> popped]
                ELSE dfs_moves(ctl, state, remaining, Tail(todo), popped)

\* A solve that would return the solution list whatever dfs returned.
SolveReturnsList(found, solution) == Some(solution)

\* if dfs(state, stone_count): return solution; return None
SolveReturn(found, solution) == IF found THEN Some(solution) ELSE None

\* A solve that sends the empty board into the search.
BaseCaseOnePiece(stone_count) == stone_count = 1

\* if stone_count <= 1: return []
BaseCase(stone_count) == stone_count <= 1

\* solve(board, time_limit, None, shape_id) with its local timed_out, and
\* with the memo's capacity max_failed: result is None or Some(list of
\* moves); searched tells whether dfs was entered, failed and hits are the
\* memo at the end and the number of calls it answered, path is the list
\* solution at the end.
solve_run_cap(board, time_limit, shape_id, expire_at, max_failed) ==
    LET state       == board_to_bits(board, shape_id)
        stone_count == Cardinality(state)
        ctl == [moves_list     |-> get_solver_data(shape_id).precomputed_moves,
                has_time_limit |-> time_limit # None,
                expire_at      |-> expire_at,
                max_failed     |-> max_failed]
    IN  IF BaseCase(stone_count)
        THEN [result |-> Some(<<>>), timed_out |-> FALSE, searched |-> FALSE,
              failed |-> {}, hits |-> 0, path |-> <<>>, applied |-> 0,
              at_deadline |-> None]
        ELSE The({ [result    |-> SolveReturn(r.found, r.st.solution),
                    timed_out |-> r.st.timed_out, searched |-> TRUE,
                    failed |-> r.st.failed, hits |-> r.st.hits, path |-> r.st.solution,
                    applied |-> r.st.applied, at_deadline |-> r.st.at_deadline] :
                   r \in {dfs(ctl, state, stone_count,
                              [check_interval |-> 0, timed_out |-> FALSE,
                               failed |-> {}, solution |-> <<>>, hits |-> 0,
                               applied |-> 0, at_deadline |-> None])} })

\* solve as written: len(failed) < 1_000_000.
solve_run(board, time_limit, shape_id, expire_at) ==
    solve_run_cap(board, time_limit, shape_id, expire_at, MAX_FAILED)

solve(board, time_limit, shape_id, expire_at) ==
    solve_run(board, time_limit, shape_id, expire_at).result

----------------------------------------------------------------------------
(* Python values the hint route handles *)

\* A value whose Python type the code depends on: None, a str (the sequence
\* of its characters), a list, or a dict.
PyNone == [type |-> "none"]
PyStr(chars) == [type |-> "str", val |-> chars]
PyList(elems) == [type |-> "list", val |-> elems]
PyDict(d) == [type |-> "dict", val |-> d]

\* bool(v): None, '' and [] are false.
Truthy(v) == v.type # "none" /\ v.val # <<>>

\* v[0]: the first character of a str (a str), the first element of a list.
Item0(v) == IF v.type = "str" THEN PyStr(<<Head(v.val)>>) ELSE PyDict(Head(v.val))

\* json.dumps of a list of move dicts, as the sequence of its tokens: '[',
\* then per move '{', the six numbers in insertion order, '}', then ']'.
RECURSIVE json_dumps_moves(_)
json_dumps_moves(moves) ==
    IF moves = <<>> THEN <<>>
    ELSE LET m == Head(moves)
         IN  <<"{", m.from_row, m.from_col, m.to_row, m.to_col, m.jump_row, m.jump_col, "}">>
                 \o json_dumps_moves(Tail(moves))

json_dumps(moves) == <<"[">> \o json_dumps_moves(moves) \o <<"]">>

\* json.loads of such a text.
json_loads(text) ==
    [k \in 1..((Len(text) - 2) \div 8) |->
        LET o == 1 + 8 * (k - 1)
        IN  [from_row |-> text[o + 2], from_col |-> text[o + 3],
             to_row   |-> text[o + 4], to_col   |-> text[o + 5],
             jump_row |-> text[o + 6], jump_col |-> text[o + 7]]]

----------------------------------------------------------------------------
(* solver_cache.py *)

\* The sentinel texts of the solution attribute.
NO_SOLUTION == <<"N", "O", "_", "S", "O", "L", "U", "T", "I", "O", "N">>
QUEUED == <<"Q", "U", "E", "U", "E", "D">>

\* Table.batch_writer() sends the buffered items in batches of 25.
BATCH_SIZE == 25

\* _cache_key
cache_key(board_bits, shape_id, allow_diagonals) ==
    IF allow_diagonals
    THEN IF shape_id = "wiegleb" THEN <<"diag", board_bits>>
         ELSE <<"diag", shape_id, board_bits>>
    ELSE IF shape_id = "wiegleb" THEN <<board_bits>>
         ELSE <<shape_id, board_bits>>

\* A move that leaves the jumped piece on the board.
apply_move_to_bits_KeepsJumped(state, move, shape_id) ==
    LET cell_index == get_solver_data(shape_id).cell_index
        from_bit == Bit(cell_index[<<move.from_row, move.from_col>>])
        to_bit   == Bit(cell_index[<<move.to_row, move.to_col>>])
    IN  (state \ {from_bit}) \cup {to_bit}

\* _apply_move_to_bits
apply_move_to_bits(state, move, shape_id) ==
    LET cell_index == get_solver_data(shape_id).cell_index
        from_bit == Bit(cell_index[<<move.from_row, move.from_col>>])
        to_bit   == Bit(cell_index[<<move.to_row, move.to_col>>])
        jump_bit == Bit(cell_index[<<move.jump_row, move.jump_col>>])
    IN  (state \ {from_bit, jump_bit}) \cup {to_bit}

\* SolverCache.get_solution; store_ok is false when get_item raises.
get_solution(table, board_bits, shape_id, allow_diagonals, store_ok) ==
    LET key   == cache_key(board_bits, shape_id, allow_diagonals)
        items == ItemsAt(table, key)
    IN  IF ~store_ok THEN PyNone
        ELSE IF items # {}
        THEN LET raw == (CHOOSE i \in items : TRUE).solution
             IN  IF raw \in {NO_SOLUTION, QUEUED} THEN PyStr(raw)
                 ELSE PyList(json_loads(raw))
        ELSE PyNone

\* The whole list where solution[i:] is meant.
RemainingMovesWhole(solution, i) == solution

\* solution[i:]
RemainingMoves(solution, i) == SubSeq(solution, i + 1, Len(solution))

\* The loop of cache_solution_path from index i on: the items it hands to
\* the batch writer, in order.
RECURSIVE path_items(_, _, _, _, _, _, _)
path_items(current_state, solution, i, remaining_stones, shape_id, allow_diagonals, t) ==
    IF i >= Len(solution) THEN <<>>
    ELSE <<[board_state |-> cache_key(current_state, shape_id, allow_diagonals),
            solution    |-> json_dumps(RemainingMoves(solution, i)),
            stone_count |-> remaining_stones,
            created_at  |-> isoformat(t)]>>
         \o path_items(apply_move_to_bits(current_state, solution[i + 1], shape_id),
                       solution, i + 1, remaining_stones - 1,
                       shape_id, allow_diagonals, t)

\* SolverCache.put_no_solution: an unconditional put of the unsolvable marker.
put_no_solution(table, board_bits, stone_count, shape_id, allow_diagonals, t) ==
    PutItem(table, [board_state |-> cache_key(board_bits, shape_id, allow_diagonals),
                    solution    |-> NO_SOLUTION,
                    stone_count |-> stone_count,
                    created_at  |-> isoformat(t)])

\* A write that stores the number of moves left where the number of stones
\* belongs.
cache_solution_path_CountsMoves(board_bits, solution, stone_count, shape_id, allow_diagonals, t) ==
    path_items(board_bits, solution, 0, Len(solution), shape_id, allow_diagonals, t)

\* SolverCache.cache_solution_path: the items buffered in the batch writer.
cache_solution_path(board_bits, solution, stone_count, shape_id, allow_diagonals, t) ==
    path_items(board_bits, solution, 0, stone_count, shape_id, allow_diagonals, t)

----------------------------------------------------------------------------
(* The hint route (app.py get_game_hint) *)

\* The boards requested: one stone; two adjacent stones (one move); three
\* stones (two moves); two stones that cannot meet; twelve stones for which
\* the search needs more than 4096 calls and finds no solution.
HintBoards ==
    { {<<4, 4>>},
      {<<4, 3>>, <<4, 4>>},
      {<<4, 3>>, <<4, 4>>, <<4, 6>>},
      {<<4, 2>>, <<4, 6>>},
      {<<0, 4>>, <<0, 5>>, <<3, 7>>, <<4, 2>>, <<4, 4>>, <<4, 5>>, <<4, 6>>,
       <<5, 3>>, <<5, 6>>, <<6, 3>>, <<6, 4>>, <<7, 4>>} }

\* Concurrent requests.
Handlers == {"h1", "h2"}

\* The check of the search at which the clock is first past the deadline
\* (0: the search ends before the deadline).
Expiries == {0, 1}

\* time_limit = 5.0 if stone_count <= 20 else 10.0
HintTimeLimit(stone_count) == IF stone_count <= 20 THEN 5 ELSE 10

\* The calls solve(board, time_limit=time_limit) the requests make, with
\* their outcomes (solve is a function of the board and the clock).
LiveSolves ==
    { [board |-> b, expire_at |-> e,
       run |-> solve_run(b, Some(HintTimeLimit(Cardinality(b))), "wiegleb", e)] :
      b \in HintBoards, e \in Expiries }

LiveSolve(board, expire_at) ==
    (CHOOSE s \in LiveSolves : s.board = board /\ s.expire_at = expire_at).run

InitHint ==
    [pc |-> "idle", board |-> {}, bits |-> {}, stone_count |-> 0,
     cached |-> PyNone, solution |-> None, timed_out |-> FALSE,
     items |-> <<>>, buffer |-> <<>>, inflight |-> {}, applied |-> {},
     wrote |-> "no", ret |-> [type |-> "unset"]]

\* data = request.get_json() ... bits = _board_to_bits(board)
HintRequest(h, board) ==
    /\ hint[h].pc = "idle"
    /\ hint' = [hint EXCEPT ![h] = [@ EXCEPT !.pc = "lookup", !.board = board,
                   !.stone_count = Cardinality(board),
                   !.bits = board_to_bits(board, "wiegleb")]]
    /\ UNCHANGED <<now, queue, proc, lease, saw, last, cache, solverVars, api>>

\* cached = solver_cache.get_solution(bits); if cached: return cached[0]
HintLookup(h) ==
    /\ hint[h].pc = "lookup"
    /\ \E store_ok \in BOOLEAN :
          LET cached == get_solution(cache, hint[h].bits, "wiegleb", FALSE, store_ok)
          IN  hint' = [hint EXCEPT ![h] =
                         IF Truthy(cached)
                         THEN [@ EXCEPT !.pc = "done", !.cached = cached, !.ret = Item0(cached)]
                         ELSE [@ EXCEPT !.pc = "solve", !.cached = cached]]
    /\ UNCHANGED <<now, queue, proc, lease, saw, last, cache, solverVars, api>>

\* A hint route that records a failed live solve as unsolvable.
FailedSolveStoreNegative(table, bits, stone_count, t) ==
    put_no_solution(table, bits, stone_count, "wiegleb", FALSE, t)

\* get_game_hint when the live solve gave no moves: it falls through to
\* `return jsonify({'hint': None})` and leaves the cache table as it is.
FailedSolveStore(table, bits, stone_count, t) == table

\* solution = solve(board, time_limit=time_limit), then either the call of
\* cache_solution_path up to the batch writer, or return {'hint': None}.
HintSolve(h) ==
    /\ hint[h].pc = "solve"
    /\ \E expire_at \in Expiries :
          LET run      == LiveSolve(hint[h].board, expire_at)
              solution == run.result
          IN  /\ hint' = [hint EXCEPT ![h] =
                 IF solution # None /\ Len(solution[1]) > 0
                 THEN LET items == cache_solution_path(hint[h].bits, solution[1],
                                       hint[h].stone_count, "wiegleb", FALSE, now)
                      IN  [@ EXCEPT !.pc = "cache", !.solution = solution,
                              !.timed_out = run.timed_out,
                              !.items = items, !.buffer = items]
                 ELSE [@ EXCEPT !.pc = "done", !.solution = solution,
                         !.timed_out = run.timed_out, !.ret = PyNone]]
              /\ cache' = IF solution # None /\ Len(solution[1]) > 0
                          THEN cache
                          ELSE FailedSolveStore(cache, hint[h].bits,
                                                hint[h].stone_count, now)
    /\ UNCHANGED <<now, queue, proc, lease, saw, last, solverVars, api>>

\* The batch writer sends the next batch of at most 25 buffered items.
HintBatchFlush(h) ==
    /\ hint[h].pc = "cache"
    /\ hint[h].inflight = {}
    /\ hint[h].buffer # <<>>
    /\ LET n == IF Len(hint[h].buffer) < BATCH_SIZE THEN Len(hint[h].buffer) ELSE BATCH_SIZE
       IN  hint' = [hint EXCEPT ![h] = [@ EXCEPT
                      !.inflight = {hint[h].buffer[k] : k \in 1..n},
                      !.buffer = SubSeq(hint[h].buffer, n + 1, Len(hint[h].buffer))]]
    /\ UNCHANGED <<now, queue, proc, lease, saw, last, cache, solverVars, api>>

\* The store applies one put of the batch (in no particular order).
HintBatchPut(h) ==
    /\ hint[h].pc = "cache"
    /\ \E item \in hint[h].inflight :
          /\ cache' = PutItem(cache, item)
          /\ hint' = [hint EXCEPT ![h] = [@ EXCEPT !.inflight = @ \ {item},
                                             !.applied = @ \cup {item}]]
    /\ UNCHANGED <<now, queue, proc, lease, saw, last, solverVars, api>>

\* The batch write raises: cache_solution_path prints the error, the rest of
\* the items is not written; return {'hint': solution[0]}.
HintBatchError(h) ==
    /\ hint[h].pc = "cache"
    /\ hint[h].inflight # {} \/ hint[h].buffer # <<>>
    /\ hint' = [hint EXCEPT ![h] = [@ EXCEPT !.pc = "done", !.wrote = "error",
                   !.inflight = {}, !.buffer = <<>>,
                   !.ret = PyDict(hint[h].solution[1][1])]]
    /\ UNCHANGED <<now, queue, proc, lease, saw, last, cache, solverVars, api>>

\* All items are written; return {'hint': solution[0]}.
HintReturn(h) ==
    /\ hint[h].pc = "cache"
    /\ hint[h].inflight = {}
    /\ hint[h].buffer = <<>>
    /\ hint' = [hint EXCEPT ![h] = [@ EXCEPT !.pc = "done", !.wrote = "ok",
                   !.ret = PyDict(hint[h].solution[1][1])]]
    /\ UNCHANGED <<now, queue, proc, lease, saw, last, cache, solverVars, api>>

----------------------------------------------------------------------------
(* Initial states and specification *)

\* An item an earlier run left in the table.
LegacyItem(status, updated_at) ==
    [board_state |-> queue_key({0, 1}, "wiegleb", FALSE), stone_count |-> 2,
     shape_id |-> "wiegleb", allow_diagonals |-> FALSE, status |-> status,
     created_at |-> isoformat(0)] @@ updated_at

\* The tables the program may find: empty, or holding one item left behind.
InitQueues ==
    { {},
      {LegacyItem("solving", <<>>)},                    \* no updated_at attribute
      {LegacyItem("solved", [updated_at |-> isoformat(0)])},
      {LegacyItem("failed", [updated_at |-> isoformat(0)])} }

\* Threads of one process that call get_solver_data.
Threads == {"t1", "t2", "t3"}

\* The shape ids they ask for.
ThreadShapes == {"wiegleb", "english"}

InitThread == [pc |-> "idle", shape_id |-> "", ret |-> None]

\* The solver module after import: the module-level statement
\* VALID_CELLS, _CELL_INDEX, _PRECOMPUTED_MOVES = get_solver_data('wiegleb')
\* has built and stored the wiegleb entry; no other shape is in the dict.
SolverImported ==
    /\ data_cache = [shape_id \in {"wiegleb"} |-> "import"]
    /\ built = [shape_id \in ThreadShapes |-> IF shape_id = "wiegleb" THEN 1 ELSE 0]
    /\ thread = [t \in Threads |-> InitThread]

\* A thread calls get_solver_data(shape_id).
GetSolverDataCall(t, shape_id) ==
    /\ thread[t].pc = "idle"
    /\ thread' = [thread EXCEPT ![t] = [pc |-> "check", shape_id |-> shape_id, ret |-> None]]
    /\ UNCHANGED <<data_cache, built>>
    /\ UNCHANGED <<now, queue, proc, lease, saw, last, cache, hint, call, api>>

\* if shape_id not in _SOLVER_DATA_CACHE
GetSolverDataCheck(t) ==
    /\ thread[t].pc = "check"
    /\ thread' = [thread EXCEPT ![t].pc = IF thread[t].shape_id \notin DOMAIN data_cache
                                          THEN "build" ELSE "return"]
    /\ UNCHANGED <<data_cache, built>>
    /\ UNCHANGED <<now, queue, proc, lease, saw, last, cache, hint, call, api>>

\* _build_solver_data(shape_id) runs; its value is held by the thread.
GetSolverDataBuild(t) ==
    /\ thread[t].pc = "build"
    /\ built' = [built EXCEPT ![thread[t].shape_id] = @ + 1]
    /\ thread' = [thread EXCEPT ![t].pc = "store"]
    /\ UNCHANGED data_cache
    /\ UNCHANGED <<now, queue, proc, lease, saw, last, cache, hint, call, api>>

\* _SOLVER_DATA_CACHE[shape_id] = <the value built>
GetSolverDataStore(t) ==
    /\ thread[t].pc = "store"
    /\ data_cache' = [shape_id \in DOMAIN data_cache \cup {thread[t].shape_id} |->
                         IF shape_id = thread[t].shape_id THEN t ELSE data_cache[shape_id]]
    /\ thread' = [thread EXCEPT ![t].pc = "return"]
    /\ UNCHANGED built
    /\ UNCHANGED <<now, queue, proc, lease, saw, last, cache, hint, call, api>>

\* return _SOLVER_DATA_CACHE[shape_id]
GetSolverDataReturn(t) ==
    /\ thread[t].pc = "return"
    /\ thread' = [thread EXCEPT ![t].pc = "idle", ![t].ret = Some(data_cache[thread[t].shape_id])]
    /\ UNCHANGED <<data_cache, built>>
    /\ UNCHANGED <<now, queue, proc, lease, saw, last, cache, hint, call, api>>

\* The exceptions a failing store request raises in the method: a
\* botocore ClientError (an error response of the service, such as
\* throttling), or an EndpointConnectionError (the service is not reached),
\* which is a BotoCoreError and not a ClientError.
StoreErrors == {"ClientError", "EndpointConnectionError"}

\* isinstance(exc, cls) for the classes the except clauses name.
IsInstance(exc, cls) == cls = "Exception" \/ cls = exc

\* An enqueue whose try block ends like that of every other method.
QueueExceptClausesAll ==
    [enqueue           |-> <<"ClientError", "Exception">>,
     reset_stale_items |-> <<"Exception">>,
     get_all_claimable |-> <<"Exception">>,
     claim_next        |-> <<"ClientError", "Exception">>,
     mark_solved       |-> <<"Exception">>,
     mark_failed       |-> <<"Exception">>,
     release           |-> <<"Exception">>,
     cleanup_completed |-> <<"Exception">>,
     get_queue_stats   |-> <<"Exception">>]

\* The except clauses around the store requests of each SolverQueue method.
QueueExceptClauses ==
    [enqueue           |-> <<"ClientError">>,
     reset_stale_items |-> <<"Exception">>,
     get_all_claimable |-> <<"Exception">>,
     claim_next        |-> <<"ClientError", "Exception">>,
     mark_solved       |-> <<"Exception">>,
     mark_failed       |-> <<"Exception">>,
     release           |-> <<"Exception">>,
     cleanup_completed |-> <<"Exception">>,
     get_queue_stats   |-> <<"Exception">>]

\* The except clauses around the store requests of each SolverCache method.
CacheExceptClauses ==
    [get_solution        |-> <<"Exception">>,
     put_solution        |-> <<"Exception">>,
     put_no_solution     |-> <<"Exception">>,
     put_queued          |-> <<"Exception">>,
     cache_solution_path |-> <<"Exception">>]

ExceptClauses == QueueExceptClauses @@ CacheExceptClauses

StoreMethods == DOMAIN ExceptClauses

\* What each method returns from its except clause (or by falling off its
\* end after it): None, [], 0, or the all-zero statistics.
ErrorResult ==
    [m \in StoreMethods |->
        CASE m = "get_all_claimable" -> PyList(<<>>)
          [] m \in {"reset_stale_items", "cleanup_completed"} -> 0
          [] m = "get_queue_stats" ->
                 [pending |-> 0, solving |-> 0, solved |-> 0, failed |-> 0, total |-> 0]
          [] OTHER -> PyNone]

\* No method is being called with a failing store.
NoApi == [pc |-> "none"]

\* Method m is called and its first store request raises exc: the first
\* except clause that matches handles it and the method returns its error
\* result; with no matching clause the exception leaves the method.
StoreFailure(m, exc) ==
    /\ api.pc = "call"
    /\ api' = IF \E k \in DOMAIN ExceptClauses[m] : IsInstance(exc, ExceptClauses[m][k])
              THEN [pc |-> "returned", method |-> m, exc |-> exc, ret |-> ErrorResult[m]]
              ELSE [pc |-> "raised", method |-> m, exc |-> exc]
    /\ UNCHANGED <<now, queue, proc, lease, saw, last, cache, hint, solverVars>>

\* No direct call of solve is made.
NoCall == [pc |-> "none"]

Init ==
    /\ now = 0
    /\ queue \in InitQueues
    /\ proc = [w \in Workers |-> InitProc]
    /\ lease = {<<i.board_state, "former">> : i \in ScanStatus(queue, {"solving"})}
    /\ saw = {}
    /\ last = NoStep
    /\ cache = {}
    /\ hint = [h \in Handlers |-> InitHint]
    /\ call = NoCall
    /\ SolverImported
    /\ api = NoApi

Next ==
    \/ \E w \in Workers :
          \/ \E include_solving \in DirectIncludeSolving : StartClaimNext(w, include_solving)
          \/ StartSolveOne(w)
          \/ StartSolveAll(w)
          \/ ResetStaleScan(w)
          \/ ResetStaleRelease(w)
          \/ ClaimNextScan(w)
          \/ ClaimNextUpdate(w)
          \/ GetAllScan(w)
          \/ GetAllClaim(w)
          \/ SolveItemStart(w)
          \/ SolveItemCall(w)
          \/ Signal(w)
          \/ SignalRelease(w)
          \/ SignalExit(w)
          \/ Crash(w)
    \/ \E inp \in EnqInputs : Enqueue(inp)
    \/ \E d \in TickSteps : Tick(d)

Spec == Init /\ [][Next]_vars

\* A cache entry an earlier run left for the board with stones on (4,3), (4,4).
LegacyEntry(solution) ==
    [board_state |-> cache_key(board_to_bits({<<4, 3>>, <<4, 4>>}, "wiegleb"), "wiegleb", FALSE),
     solution |-> solution, stone_count |-> 2, created_at |-> isoformat(0)]

\* The cache tables the hint route may find: empty, or holding one entry
\* (queued, unsolvable, or a solution: (4,4) jumps over (4,3) to (4,2)).
InitCaches ==
    { {},
      {LegacyEntry(QUEUED)},
      {LegacyEntry(NO_SOLUTION)},
      {LegacyEntry(json_dumps(<<[from_row |-> 4, from_col |-> 4, to_row |-> 4,
                                 to_col |-> 2, jump_row |-> 4, jump_col |-> 3]>>))} }

\* The hint route serving requests over a cache table; no worker runs.
InitCache ==
    /\ now = 0
    /\ queue = {}
    /\ proc = [w \in Workers |-> InitProc]
    /\ lease = {}
    /\ saw = {}
    /\ last = NoStep
    /\ cache \in InitCaches
    /\ hint = [h \in Handlers |-> InitHint]
    /\ call = NoCall
    /\ SolverImported
    /\ api = NoApi

NextCache ==
    \/ \E h \in Handlers :
          \/ \E board \in HintBoards : HintRequest(h, board)
          \/ HintLookup(h)
          \/ HintSolve(h)
          \/ HintBatchFlush(h)
          \/ HintBatchPut(h)
          \/ HintBatchError(h)
          \/ HintReturn(h)
    \/ \E d \in TickSteps : Tick(d)

SpecCache == InitCache /\ [][NextCache]_vars

----------------------------------------------------------------------------
(* prepopulate_cache.py *)

\* LEVEL_CONFIGS: the marbles of 'Level 1 - Cross'.
PrepopLevels ==
    { {<<4, 2>>, <<4, 3>>, <<4, 4>>, <<4, 5>>, <<4, 6>>,
       <<2, 4>>, <<3, 4>>, <<5, 4>>, <<6, 4>>} }

\* --time-limit, default 300
PrepopTimeLimit == 300

\* The calls solve(board, time_limit=args.time_limit) of the run.
PrepopSolves ==
    { [board |-> b, expire_at |-> e,
       run |-> solve_run(b, Some(PrepopTimeLimit), "wiegleb", e)] :
      b \in PrepopLevels, e \in Expiries }

PrepopSolve(board, expire_at) ==
    (CHOOSE s \in PrepopSolves : s.board = board /\ s.expire_at = expire_at).run

\* main, the pass of `for level_num in levels` for one level (a run meets
\* each level once): board = build_board(marbles),
\* stone_count = len(marbles), bits = _board_to_bits(board).
PrepopLevel(h, marbles) ==
    /\ hint[h].pc = "idle"
    /\ hint' = [hint EXCEPT ![h] = [InitHint EXCEPT !.pc = "pp_lookup", !.board = marbles,
                   !.stone_count = Cardinality(marbles),
                   !.bits = board_to_bits(marbles, "wiegleb")]]
    /\ UNCHANGED <<now, queue, proc, lease, saw, last, cache, solverVars, api>>

\* cached = solver_cache.get_solution(bits); `if cached: ... continue`
PrepopLookup(h) ==
    /\ hint[h].pc = "pp_lookup"
    /\ \E store_ok \in BOOLEAN :
          LET cached == get_solution(cache, hint[h].bits, "wiegleb", FALSE, store_ok)
          IN  hint' = [hint EXCEPT ![h] =
                         [@ EXCEPT !.pc = IF Truthy(cached) THEN "done" ELSE "pp_solve",
                                   !.cached = cached]]
    /\ UNCHANGED <<now, queue, proc, lease, saw, last, cache, solverVars, api>>

\* solution = solve(board, time_limit=args.time_limit); `if solution is None:
\* ... continue`, else cache_solution_path(bits, solution, stone_count) up to
\* the batch writer.
PrepopRun(h) ==
    /\ hint[h].pc = "pp_solve"
    /\ \E expire_at \in Expiries :
          LET run      == PrepopSolve(hint[h].board, expire_at)
              solution == run.result
          IN  hint' = [hint EXCEPT ![h] =
                 IF solution = None
                 THEN [@ EXCEPT !.pc = "done", !.timed_out = run.timed_out]
                 ELSE LET items == cache_solution_path(hint[h].bits, solution[1],
                                       hint[h].stone_count, "wiegleb", FALSE, now)
                      IN  [@ EXCEPT !.pc = "pp_cache", !.solution = solution,
                              !.items = items, !.buffer = items]]
    /\ UNCHANGED <<now, queue, proc, lease, saw, last, cache, solverVars, api>>

\* The batch writer of the run sends its next batch.
PrepopBatchFlush(h) ==
    /\ hint[h].pc = "pp_cache"
    /\ hint[h].inflight = {}
    /\ hint[h].buffer # <<>>
    /\ LET n == IF Len(hint[h].buffer) < BATCH_SIZE THEN Len(hint[h].buffer) ELSE BATCH_SIZE
       IN  hint' = [hint EXCEPT ![h] = [@ EXCEPT
                      !.inflight = {hint[h].buffer[k] : k \in 1..n},
                      !.buffer = SubSeq(hint[h].buffer, n + 1, Len(hint[h].buffer))]]
    /\ UNCHANGED <<now, queue, proc, lease, saw, last, cache, solverVars, api>>

\* The store applies one put of the batch.
PrepopBatchPut(h) ==
    /\ hint[h].pc = "pp_cache"
    /\ \E item \in hint[h].inflight :
          /\ cache' = PutItem(cache, item)
          /\ hint' = [hint EXCEPT ![h] = [@ EXCEPT !.inflight = @ \ {item}]]
    /\ UNCHANGED <<now, queue, proc, lease, saw, last, solverVars, api>>

\* The batch write raises: cache_solution_path prints the error and the rest
\* is not written; main prints 'Cached n states' all the same.
PrepopBatchError(h) ==
    /\ hint[h].pc = "pp_cache"
    /\ hint[h].inflight # {} \/ hint[h].buffer # <<>>
    /\ hint' = [hint EXCEPT ![h] = [@ EXCEPT !.pc = "done", !.wrote = "error",
                   !.inflight = {}, !.buffer = <<>>]]
    /\ UNCHANGED <<now, queue, proc, lease, saw, last, cache, solverVars, api>>

\* All items of the level are written.
PrepopCached(h) ==
    /\ hint[h].pc = "pp_cache"
    /\ hint[h].inflight = {}
    /\ hint[h].buffer = <<>>
    /\ hint' = [hint EXCEPT ![h] = [@ EXCEPT !.pc = "done", !.wrote = "ok"]]
    /\ UNCHANGED <<now, queue, proc, lease, saw, last, cache, solverVars, api>>

\* The three programs that write to the cache table side by side: the hint
\* route (handler h1), a prepopulation run (h2) and a queue worker.
HintHandler == "h1"
PrepopHandler == "h2"
QueueWorker == "w1"

\* The boards sent to the hint route here: those with a solution of one and
\* of two moves.
WriterBoards == {b \in HintBoards : Cardinality(b) \in {2, 3}}

\* An empty cache table, and a queue with one item that an earlier worker
\* left in status Solving.
InitWriters ==
    /\ now = 0
    /\ queue = {LegacyItem("solving", <<>>)}
    /\ proc = [w \in Workers |-> InitProc]
    /\ lease = {<<i.board_state, "former">> : i \in ScanStatus(queue, {"solving"})}
    /\ saw = {}
    /\ last = NoStep
    /\ cache = {}
    /\ hint = [h \in Handlers |-> InitHint]
    /\ call = NoCall
    /\ SolverImported
    /\ api = NoApi

NextWriters ==
    \/ \E board \in WriterBoards : HintRequest(HintHandler, board)
    \/ HintLookup(HintHandler)
    \/ HintSolve(HintHandler)
    \/ HintBatchFlush(HintHandler)
    \/ HintBatchPut(HintHandler)
    \/ HintBatchError(HintHandler)
    \/ HintReturn(HintHandler)
    \/ \E marbles \in PrepopLevels : PrepopLevel(PrepopHandler, marbles)
    \/ PrepopLookup(PrepopHandler)
    \/ PrepopRun(PrepopHandler)
    \/ PrepopBatchFlush(PrepopHandler)
    \/ PrepopBatchPut(PrepopHandler)
    \/ PrepopBatchError(PrepopHandler)
    \/ PrepopCached(PrepopHandler)
    \/ StartSolveOne(QueueWorker)
    \/ ResetStaleScan(QueueWorker)
    \/ ResetStaleRelease(QueueWorker)
    \/ ClaimNextScan(QueueWorker)
    \/ ClaimNextUpdate(QueueWorker)
    \/ SolveItemStart(QueueWorker)
    \/ SolveItemCall(QueueWorker)

SpecWriters == InitWriters /\ [][NextWriters]_vars

\* The cells the boards given to solve directly are drawn from: a corner of
\* the left arm of each shape, with the cells next to the cut-out corner.
SolveCells ==
    [wiegleb |-> {<<2, 3>>, <<3, 0>>, <<3, 1>>, <<3, 2>>, <<3, 3>>,
                  <<4, 0>>, <<4, 1>>, <<4, 2>>, <<4, 3>>},
     english |-> {<<1, 2>>, <<2, 0>>, <<2, 1>>, <<2, 2>>, <<2, 3>>,
                  <<3, 0>>, <<3, 1>>, <<3, 2>>, <<3, 3>>}]

\* The largest number of stones on such a board.
MaxStones == 4

SolveShapes == {"wiegleb", "english"}

SolveBoards(shape_id) ==
    {b \in SUBSET SolveCells[shape_id] : Cardinality(b) <= MaxStones}

\* The sizes at which the memo stops growing: no memo at all, a memo of one
\* or two states, and the size in the code.
MemoCapacities == {0, 1, 2, MAX_FAILED}

\* time_limit=None (the search runs to the end) or a limit in seconds.
SolveTimeLimits == {None, Some(5)}

\* A program calling solve(board, time_limit, shape_id=shape_id) once.
InitSolve ==
    /\ now = 0
    /\ queue = {}
    /\ proc = [w \in Workers |-> InitProc]
    /\ lease = {}
    /\ saw = {}
    /\ last = NoStep
    /\ cache = {}
    /\ hint = [h \in Handlers |-> InitHint]
    /\ \E shape_id \in SolveShapes, time_limit \in SolveTimeLimits :
          \E board \in SolveBoards(shape_id) :
             call = [pc |-> "call", board |-> board, shape_id |-> shape_id,
                     time_limit |-> time_limit, result |-> None]
    /\ SolverImported
    /\ api = NoApi

\* solve runs and returns.
SolveCall ==
    /\ call.pc = "call"
    /\ \E expire_at \in Expiries :
          call' = [call EXCEPT !.pc = "returned",
                      !.result = solve(call.board, call.time_limit, call.shape_id, expire_at)]
                    @@ [run |-> [c \in MemoCapacities |->
                                   solve_run_cap(call.board, call.time_limit, call.shape_id,
                                                 expire_at, c)]]
    /\ UNCHANGED <<now, queue, proc, lease, saw, last, cache, hint>>
    /\ UNCHANGED <<data_cache, thread, built, api>>

NextSolve == SolveCall

SpecSolve == InitSolve /\ [][NextSolve]_vars

\* Two boards of twelve stones whose search makes more than 4096 calls of
\* dfs: the first has a solution, the second (of HintBoards) has none.
DeadlineBoards ==
    { {<<3, 6>>, <<3, 7>>, <<4, 0>>, <<4, 1>>, <<4, 3>>, <<4, 4>>, <<4, 6>>, <<4, 7>>,
       <<5, 1>>, <<5, 3>>, <<5, 4>>, <<5, 5>>},
      {<<0, 4>>, <<0, 5>>, <<3, 7>>, <<4, 2>>, <<4, 4>>, <<4, 5>>, <<4, 6>>,
       <<5, 3>>, <<5, 6>>, <<6, 3>>, <<6, 4>>, <<7, 4>>} }

\* A program calling solve(board, time_limit=5.0) once, on a small board or
\* on one whose search is still running at the first look at the clock.
InitDeadline ==
    /\ now = 0
    /\ queue = {}
    /\ proc = [w \in Workers |-> InitProc]
    /\ lease = {}
    /\ saw = {}
    /\ last = NoStep
    /\ cache = {}
    /\ hint = [h \in Handlers |-> InitHint]
    /\ \E board \in SolveBoards("wiegleb") \cup DeadlineBoards :
          call = [pc |-> "call", board |-> board, shape_id |-> "wiegleb",
                  time_limit |-> Some(5), result |-> None]
    /\ SolverImported
    /\ api = NoApi

\* solve runs and returns; the clock is past the deadline at the first check
\* or at none.
DeadlineCall ==
    /\ call.pc = "call"
    /\ \E expire_at \in Expiries :
          LET run == solve_run(call.board, call.time_limit, call.shape_id, expire_at)
          IN  call' = [call EXCEPT !.pc = "returned", !.result = run.result]
                        @@ [search |-> run]
    /\ UNCHANGED <<now, queue, proc, lease, saw, last, cache, hint>>
    /\ UNCHANGED <<data_cache, thread, built, api>>

NextDeadline == DeadlineCall

SpecDeadline == InitDeadline /\ [][NextDeadline]_vars

\* The bit positions the bitmasks given to _bits_to_board are drawn from:
\* the first and the last positions of the shape's bit range and some between.
CodecBits(shape_id) ==
    LET n == Len(BOARD_SHAPES[shape_id].valid_cells)
    IN  {0, 1, 2, n \div 2, n - 3, n - 2, n - 1}

\* A rows x cols grid that holds True on the given cells only.
GridOf(cells, shape_id) ==
    [rc \in (0..(BOARD_SHAPES[shape_id].rows - 1)) \X (0..(BOARD_SHAPES[shape_id].cols - 1)) |->
        rc \in cells]

\* The jumps of the shape's move table that start on a cell of SolveCells.
CodecMoves(shape_id) ==
    LET moves_list == get_solver_data(shape_id).precomputed_moves
    IN  {MoveDict(moves_list[k]) : k \in {j \in DOMAIN moves_list :
             <<moves_list[j].from_row, moves_list[j].from_col>> \in SolveCells[shape_id]}}

\* A program calling one of the conversions once: encode after decode on a
\* bitmask, decode after encode on a grid, or _apply_move_to_bits on the
\* encoding of a grid.
InitCodec ==
    /\ now = 0
    /\ queue = {}
    /\ proc = [w \in Workers |-> InitProc]
    /\ lease = {}
    /\ saw = {}
    /\ last = NoStep
    /\ cache = {}
    /\ hint = [h \in Handlers |-> InitHint]
    /\ SolverImported
    /\ api = NoApi
    /\ \E shape_id \in SolveShapes :
          \/ \E bits \in SUBSET CodecBits(shape_id) :
                call = [pc |-> "call", fn |-> "encode_decode", shape_id |-> shape_id,
                        bits |-> bits]
          \/ \E board \in SolveBoards(shape_id) :
                call = [pc |-> "call", fn |-> "decode_encode", shape_id |-> shape_id,
                        grid |-> GridOf(board, shape_id)]
          \/ \E board \in SolveBoards(shape_id), move \in CodecMoves(shape_id) :
                call = [pc |-> "call", fn |-> "apply_move", shape_id |-> shape_id,
                        grid |-> GridOf(board, shape_id), move |-> move]

\* _board_to_bits(_bits_to_board(bits, shape_id), shape_id)
EncodeDecodeCall ==
    /\ call.pc = "call" /\ call.fn = "encode_decode"
    /\ call' = [call EXCEPT !.pc = "returned"]
                  @@ [result |-> board_to_bits(TrueCells(bits_to_board(call.bits, call.shape_id)),
                                               call.shape_id)]
    /\ UNCHANGED <<now, queue, proc, lease, saw, last, cache, hint, data_cache, thread, built, api>>

\* _bits_to_board(_board_to_bits(grid, shape_id), shape_id)
DecodeEncodeCall ==
    /\ call.pc = "call" /\ call.fn = "decode_encode"
    /\ call' = [call EXCEPT !.pc = "returned"]
                  @@ [result |-> bits_to_board(board_to_bits(TrueCells(call.grid), call.shape_id),
                                               call.shape_id)]
    /\ UNCHANGED <<now, queue, proc, lease, saw, last, cache, hint, data_cache, thread, built, api>>

\* _apply_move_to_bits(_board_to_bits(grid, shape_id), move, shape_id)
ApplyMoveCall ==
    /\ call.pc = "call" /\ call.fn = "apply_move"
    /\ call' = [call EXCEPT !.pc = "returned"]
                  @@ [state  |-> board_to_bits(TrueCells(call.grid), call.shape_id),
                      result |-> apply_move_to_bits(
                                    board_to_bits(TrueCells(call.grid), call.shape_id),
                                    call.move, call.shape_id)]
    /\ UNCHANGED <<now, queue, proc, lease, saw, last, cache, hint, data_cache, thread, built, api>>

NextCodec == EncodeDecodeCall \/ DecodeEncodeCall \/ ApplyMoveCall

SpecCodec == InitCodec /\ [][NextCodec]_vars

\* The ids of BOARD_SHAPES.
ShapeIds == {"wiegleb", "english", "european", "asymmetrical", "diamond"}

\* The bitmasks the keys are built from: every set of these bit positions.
KeyBitPositions == {0, 1, 3}

\* The inputs of a key: (shape id, variant flag, bitmask).
KeyInputs == ShapeIds \X BOOLEAN \X (SUBSET KeyBitPositions)

\* A program that builds the cache key and the queue key of two states and
\* parses the bitmask back from the queue keys, as the workers do.
InitKeys ==
    /\ now = 0
    /\ queue = {}
    /\ proc = [w \in Workers |-> InitProc]
    /\ lease = {}
    /\ saw = {}
    /\ last = NoStep
    /\ cache = {}
    /\ hint = [h \in Handlers |-> InitHint]
    /\ SolverImported
    /\ api = NoApi
    /\ \E a \in KeyInputs, b \in KeyInputs :
          call = [pc |-> "call", fn |-> "keys", inputs |-> <<a, b>>]

\* _cache_key(bits, shape_id, allow_diagonals), _queue_key(bits, shape_id,
\* allow_diagonals) and the parse of the queue key, for both states.
KeysCall ==
    /\ call.pc = "call" /\ call.fn = "keys"
    /\ call' = [call EXCEPT !.pc = "returned"]
                  @@ [cache_keys |-> [n \in {1, 2} |->
                         key_text(cache_key(call.inputs[n][3], call.inputs[n][1],
                                            call.inputs[n][2]))],
                      queue_keys |-> [n \in {1, 2} |->
                         key_text(queue_key(call.inputs[n][3], call.inputs[n][1],
                                            call.inputs[n][2]))],
                      parsed |-> [n \in {1, 2} |->
                         parse_bits(key_text(queue_key(call.inputs[n][3], call.inputs[n][1],
                                                       call.inputs[n][2])))]]
    /\ UNCHANGED <<now, queue, proc, lease, saw, last, cache, hint, data_cache, thread, built, api>>

NextKeys == KeysCall

SpecKeys == InitKeys /\ [][NextKeys]_vars

\* The cells of the grid of a shape, valid or not.
GridCells(shape_id) ==
    (0..(BOARD_SHAPES[shape_id].rows - 1)) \X (0..(BOARD_SHAPES[shape_id].cols - 1))

\* A program that builds the move table of a shape and reads the entries
\* that start on one cell of the grid.
InitTable ==
    /\ now = 0
    /\ queue = {}
    /\ proc = [w \in Workers |-> InitProc]
    /\ lease = {}
    /\ saw = {}
    /\ last = NoStep
    /\ cache = {}
    /\ hint = [h \in Handlers |-> InitHint]
    /\ SolverImported
    /\ api = NoApi
    /\ \E shape_id \in ShapeIds : \E cell \in GridCells(shape_id) :
          call = [pc |-> "call", fn |-> "table", shape_id |-> shape_id, cell |-> cell]

\* _build_solver_data(shape_id): raised tells whether it ended in KeyError,
\* entries are the tuples of precomputed_moves that start on the cell, in
\* table order.
TableCall ==
    /\ call.pc = "call" /\ call.fn = "table"
    /\ call' = [call EXCEPT !.pc = "returned"]
                  @@ [raised  |-> MissingIndex(call.shape_id) # {},
                      entries |-> IF MissingIndex(call.shape_id) # {} THEN <<>>
                                  ELSE SelectSeq(get_solver_data(call.shape_id).precomputed_moves,
                                                 LAMBDA m : <<m.from_row, m.from_col>> = call.cell)]
    /\ UNCHANGED <<now, queue, proc, lease, saw, last, cache, hint, data_cache, thread, built, api>>

NextTable == TableCall

SpecTable == InitTable /\ [][NextTable]_vars

\* A caller of one cache or queue method while the store fails, over any of
\* the tables of InitQueues and InitCaches.
InitFault ==
    /\ now = 0
    /\ queue \in InitQueues
    /\ proc = [w \in Workers |-> InitProc]
    /\ lease = {}
    /\ saw = {}
    /\ last = NoStep
    /\ cache \in InitCaches
    /\ hint = [h \in Handlers |-> InitHint]
    /\ call = NoCall
    /\ SolverImported
    /\ api = [pc |-> "call"]

NextFault == \E m \in StoreMethods, exc \in StoreErrors : StoreFailure(m, exc)

SpecFault == InitFault /\ [][NextFault]_vars

\* A process that has imported the solver module and uses nothing else.
InitThreads ==
    /\ now = 0
    /\ queue = {}
    /\ proc = [w \in Workers |-> InitProc]
    /\ lease = {}
    /\ saw = {}
    /\ last = NoStep
    /\ cache = {}
    /\ hint = [h \in Handlers |-> InitHint]
    /\ call = NoCall
    /\ SolverImported
    /\ api = NoApi

\* Threads of one process calling get_solver_data after the module's import.
NextThreads ==
    \E t \in Threads :
       \/ \E shape_id \in ThreadShapes : GetSolverDataCall(t, shape_id)
       \/ GetSolverDataCheck(t)
       \/ GetSolverDataBuild(t)
       \/ GetSolverDataStore(t)
       \/ GetSolverDataReturn(t)

SpecThreads == InitThreads /\ [][NextThreads]_vars

\* Workers that use the queue through its methods: each claims an item with
\* claim_next or get_all_claimable and finishes the item claim_next gave it
\* with mark_solved, mark_failed or release, while callers enqueue states.
NextApi ==
    \/ \E w \in Workers :
          \/ \E include_solving \in DirectIncludeSolving : StartClaimNext(w, include_solving)
          \/ StartSolveAll(w)
          \/ ResetStaleScan(w)
          \/ ResetStaleRelease(w)
          \/ ClaimNextScan(w)
          \/ ClaimNextUpdate(w)
          \/ GetAllScan(w)
          \/ GetAllClaim(w)
          \/ SolveItemStart(w)
          \/ SolveItemCall(w)
          \/ CallerMarkSolved(w)
          \/ CallerMarkFailed(w)
          \/ CallerRelease(w)
    \/ \E inp \in EnqInputs : Enqueue(inp)
    \/ \E d \in TickSteps : Tick(d)

SpecApi == Init /\ [][NextApi]_vars

\* The queue table as create_table_if_not_exists makes it: empty.
InitFresh ==
    /\ now = 0
    /\ queue = {}
    /\ proc = [w \in Workers |-> InitProc]
    /\ lease = {}
    /\ saw = {}
    /\ last = NoStep
    /\ cache = {}
    /\ hint = [h \in Handlers |-> InitHint]
    /\ call = NoCall
    /\ SolverImported
    /\ api = NoApi

\* The methods of the queue used on a table that was empty at the start,
\* with runs of --cleanup and --stats; a cleanup that finds nothing returns
\* from its scan.
NextFresh ==
    \/ NextApi
    \/ \E w \in Workers :
          \/ StartCleanup(w)
          \/ CleanupScan(w)
          \/ ShowStats(w)

SpecFresh == InitFresh /\ [][NextFresh]_vars

\* The tables cleanup may find: those of InitQueues, or one holding a solved
\* and a failed item.
CleanupQueues ==
    InitQueues \cup
    { {LegacyItem("solved", [updated_at |-> isoformat(0)]),
       [board_state |-> queue_key({0, 1, 3}, "english", TRUE), stone_count |-> 3,
        shape_id |-> "english", allow_diagonals |-> TRUE, status |-> "failed",
        created_at |-> isoformat(0), updated_at |-> isoformat(0)]} }

\* Processes started with --cleanup while callers enqueue board states.
InitCleanup ==
    /\ now = 0
    /\ queue \in CleanupQueues
    /\ proc = [w \in Workers |-> InitProc]
    /\ lease = {}
    /\ saw = {}
    /\ last = NoStep
    /\ cache = {}
    /\ hint = [h \in Handlers |-> InitHint]
    /\ call = NoCall
    /\ SolverImported
    /\ api = NoApi

NextCleanup ==
    \/ \E w \in Workers :
          \/ StartCleanup(w)
          \/ CleanupScan(w)
          \/ CleanupDelete(w)
    \/ \E inp \in EnqInputs : Enqueue(inp)
    \/ \E d \in TickSteps : Tick(d)

SpecCleanup == InitCleanup /\ [][NextCleanup]_vars

\* The tables --reset-stuck may find: those of InitQueues, or one holding
\* two solving items.
StuckQueues ==
    InitQueues \cup
    { {LegacyItem("solving", [updated_at |-> isoformat(0)]),
       [board_state |-> queue_key({0, 1, 3}, "english", TRUE), stone_count |-> 3,
        shape_id |-> "english", allow_diagonals |-> TRUE, status |-> "solving",
        created_at |-> isoformat(0), updated_at |-> isoformat(0)]} }

\* Processes started with --reset-stuck while callers enqueue board states.
InitResetStuck ==
    /\ now = 0
    /\ queue \in StuckQueues
    /\ proc = [w \in Workers |-> InitProc]
    /\ lease = {}
    /\ saw = {}
    /\ last = NoStep
    /\ cache = {}
    /\ hint = [h \in Handlers |-> InitHint]
    /\ call = NoCall
    /\ SolverImported
    /\ api = NoApi

NextResetStuck ==
    \/ \E w \in Workers :
          \/ StartResetStuck(w)
          \/ ResetStuckScan(w)
          \/ ResetStuckDelete(w)
    \/ \E inp \in EnqInputs : Enqueue(inp)
    \/ \E d \in TickSteps : Tick(d)

SpecResetStuck == InitResetStuck /\ [][NextResetStuck]_vars

\* The time that passes in one step there: more than the lease lasts.
ElapseSteps == {MaxTime}

\* Callers of get_all_claimable(include_solving=False) while callers enqueue
\* board states and time passes.
NextGetAll ==
    \/ \E w \in Workers :
          \/ StartGetAll(w, FALSE)
          \/ ResetStaleScan(w)
          \/ ResetStaleRelease(w)
          \/ GetAllScan(w)
          \/ GetAllClaim(w)
    \/ \E inp \in EnqInputs : Enqueue(inp)
    \/ \E d \in TickSteps : Tick(d)

SpecGetAll == Init /\ [][NextGetAll]_vars

\* Worker processes that run solve_one again and again, over any length of
\* time: the clock has reached MaxTime.
InitWorkers ==
    /\ now = MaxTime
    /\ queue \in InitQueues
    /\ proc = [w \in Workers |-> InitProc]
    /\ lease = {}
    /\ saw = {}
    /\ last = NoStep
    /\ cache = {}
    /\ hint = [h \in Handlers |-> InitHint]
    /\ call = NoCall
    /\ SolverImported
    /\ api = NoApi

\* The steps of a solve_one process that is not killed, and its restart.
WorkerStep(w) ==
    \/ StartSolveOne(w)
    \/ ResetStaleScan(w)
    \/ ResetStaleRelease(w)
    \/ ClaimNextScan(w)
    \/ ClaimNextUpdate(w)
    \/ SolveItemStart(w)
    \/ SolveItemCall(w)
    \/ Restart(w)

\* No process is killed.
NextWorkers ==
    \/ \E w \in Workers : WorkerStep(w)
    \/ \E inp \in EnqInputs : Enqueue(inp)
    \/ \E d \in ElapseSteps : Elapse(d)

\* Processes may be killed at any point.
NextRecover ==
    \/ \E w \in Workers : WorkerStep(w) \/ Crash(w)
    \/ \E inp \in EnqInputs : Enqueue(inp)
    \/ \E d \in ElapseSteps : Elapse(d)

\* Every process goes on running and is run again when it has ended, and
\* time goes on.
FairWorkers ==
    /\ \A w \in Workers : WF_vars(WorkerStep(w))
    /\ WF_vars(\E d \in ElapseSteps : Elapse(d))

\* The same where processes are killed: a process that is run again and
\* again is not killed every time before the next step of reset_stale_items.
FairRecover ==
    /\ FairWorkers
    /\ \A w \in Workers : /\ SF_vars(ResetStaleScan(w))
                           /\ SF_vars(ResetStaleRelease(w))

SpecWorkers == InitWorkers /\ [][NextWorkers]_vars /\ FairWorkers

SpecRecover == InitWorkers /\ [][NextRecover]_vars /\ FairRecover

----------------------------------------------------------------------------
(* Properties of the queue and the workers *)

\* The workers whose own Pending->Solving update on key still stands.
Holders(key) == {p[2] : p \in {q \in lease : q[1] = key}}

\* The direct claim_next(False) calls that chose key in the current lease period.
Scanners(key) == {w \in Workers : <<key, w>> \in saw}

\* The key of the item worker w is in solve on (at the call of solve in solve_item).
InSolve(w, key) ==
    /\ proc[w].pc = "si_solve"
    /\ proc[w].items[proc[w].idx].board_state = key

AllKeys == {i.board_state : i \in queue} \cup {p[1] : p \in lease} \cup {p[1] : p \in saw}

C2_AtMostOneSolver ==
    \A key \in AllKeys : Cardinality({w \in Workers : InSolve(w, key)}) <= 1

\* C2 as amended: at most one worker is in solve on a key as the holder of a
\* lease it acquired itself (its own Pending->Solving update, the item not
\* released, reset or deleted since).
C2_AtMostOneLeaseHolderSolving ==
    \A key \in AllKeys :
       Cardinality({w \in Workers : InSolve(w, key) /\ w \in Holders(key)}) <= 1

\* Two workers are in solve on the same key, one of them holding the lease.
C2_Witness ==
    \E key \in AllKeys : \E w1, w2 \in Workers :
       /\ w1 # w2
       /\ InSolve(w1, key) /\ w1 \in Holders(key)
       /\ InSolve(w2, key) /\ w2 \notin Holders(key)

\* C3: after an enqueue there is exactly one item for the key, and an enqueue
\* that found the item Solving or Solved left the item as it was.
C3_EnqueueIdempotent ==
    last.op = "enqueue" =>
       /\ Cardinality(ItemsAt(queue, last.key)) = 1
       /\ (\E i \in last.before : i.status \in {"solving", "solved"})
             => ItemsAt(queue, last.key) = last.before

\* An enqueue found the item Solving.
C3_Witness ==
    /\ last.op = "enqueue"
    /\ \E i \in last.before : i.status = "solving"

\* A second enqueue found the item Pending.
C3_WitnessPending ==
    /\ last.op = "enqueue"
    /\ \E i \in last.before : i.status = "pending"

\* C4 as claimed: an enqueue that found the item Pending left every attribute
\* of the item as it was.
C4_EnqueuePendingNoOp ==
    (last.op = "enqueue" /\ \E i \in last.before : i.status = "pending")
       => ItemsAt(queue, last.key) = last.before

\* C4 as amended: an enqueue that found the item Pending leaves one Pending
\* item for the key, with stone_count set to the call's argument and
\* created_at and updated_at set to the time of the call.
C4_EnqueuePendingOverwrites ==
    (last.op = "enqueue" /\ \E i \in last.before : i.status = "pending")
       => \E i \in queue :
             /\ ItemsAt(queue, last.key) = {i}
             /\ i.status = "pending"
             /\ i.stone_count = last.stone_count
             /\ i.created_at = isoformat(now)
             /\ i.updated_at = isoformat(now)

\* An enqueue found a Pending item created at an earlier time and replaced it.
C4_Witness ==
    /\ last.op = "enqueue"
    /\ \E i \in last.before : i.status = "pending" /\ i.created_at # isoformat(now)
    /\ ItemsAt(queue, last.key) # last.before

\* C5: the release write of reset_stale_items leaves untouched an item whose
\* lease is not older than the maximum age when the write is made.
C5_ResetLeavesFreshUntouched ==
    last.op = "reset_release" =>
       \A i \in last.before :
          (i.status = "solving" /\ ~IsStale(i, now, MAX_AGE_SECONDS)) => i \in queue

\* C6: a process that exited through the signal handler has left none of the
\* items it moved to Solving in that state.
C6_SignalReleasesClaimed ==
    \A w \in Workers :
       (proc[w].pc = "dead" /\ proc[w].exit = "signal") =>
          \A key \in AllKeys : w \notin Holders(key)

----------------------------------------------------------------------------
(* Properties of the cache and the hint route *)

\* The state reached after applying moves[0:i] to state.
RECURSIVE StateAfter(_, _, _)
StateAfter(state, moves, i) ==
    IF i = 0 THEN state
    ELSE apply_move_to_bits(StateAfter(state, moves, i - 1), moves[i], "wiegleb")

\* The moves request h solved live.
MovesOf(h) == hint[h].solution[1]

\* The cache holds, for the state i moves into the path of request h, an entry
\* with stone_count n - i, and a lookup of that state yields moves[i:].
HoldsSuffix(h, i) ==
    LET s == StateAfter(hint[h].bits, MovesOf(h), i) IN
    /\ get_solution(cache, s, "wiegleb", FALSE, TRUE)
          = PyList(SubSeq(MovesOf(h), i + 1, Len(MovesOf(h))))
    /\ \E e \in ItemsAt(cache, cache_key(s, "wiegleb", FALSE)) :
          e.stone_count = hint[h].stone_count - i

\* C7 as claimed: after cache_solution_path(s, moves, n) has written all its
\* items, the cache holds for every i in 0..len(moves), the final state
\* included, an entry with solution moves[i:] and stone_count n - i.
C7_PathEntriesThroughFinal ==
    \A h \in Handlers :
       hint[h].wrote = "ok" => \A i \in 0..Len(MovesOf(h)) : HoldsSuffix(h, i)

\* C7 as amended: the call writes len(moves) items; after they are written
\* the cache holds for every i in 0..len(moves)-1 an entry with solution
\* moves[i:] and stone_count n - i, and the call writes no item for the final
\* one-piece state.
C7_PathEntriesBeforeFinal ==
    \A h \in Handlers :
       hint[h].wrote = "ok" =>
          /\ \A i \in 0..(Len(MovesOf(h)) - 1) : HoldsSuffix(h, i)
          /\ Len(hint[h].items) = Len(MovesOf(h))
          /\ \A k \in DOMAIN hint[h].items :
                hint[h].items[k].board_state #
                   cache_key(StateAfter(hint[h].bits, MovesOf(h), Len(MovesOf(h))),
                             "wiegleb", FALSE)

\* A request has written the whole path of a two-move solution.
C7_Witness ==
    \E h \in Handlers :
       /\ hint[h].pc = "done"
       /\ hint[h].wrote = "ok"
       /\ Len(MovesOf(h)) = 2

C9_HintReturnsMoveOrNull ==
    \A h \in Handlers :
       hint[h].pc = "done" =>
          /\ hint[h].ret.type \in {"dict", "none"}
          /\ (hint[h].cached.type = "list" /\ hint[h].cached.val # <<>>)
                => hint[h].ret = PyDict(hint[h].cached.val[1])

\* C10: a hint request whose live solve timed out has left a Pending queue
\* item for the state, a Queued cache entry for it, and returned null.
C10_TimeoutEnqueuesQueuedNull ==
    \A h \in Handlers :
       (hint[h].pc = "done" /\ hint[h].timed_out) =>
          /\ \E i \in ItemsAt(queue, queue_key(hint[h].bits, "wiegleb", FALSE)) :
                i.status = "pending"
          /\ get_solution(cache, hint[h].bits, "wiegleb", FALSE, TRUE) = PyStr(QUEUED)
          /\ hint[h].ret = PyNone

----------------------------------------------------------------------------
(* Properties of solve *)

\* Request h ran the live solve (the lookup did not answer it).
RanSolve(h) == hint[h].pc \in {"cache", "done"} /\ ~Truthy(hint[h].cached)

\* The search of request h stopped because the deadline passed.
StoppedByDeadline(h) == RanSolve(h) /\ hint[h].timed_out

\* The search of request h exhausted the state space without a solution.
Exhausted(h) == RanSolve(h) /\ ~hint[h].timed_out /\ hint[h].solution = None

C12_HintNeverNegativeCaches ==
    [][\A e \in cache' \ cache : e.solution # NO_SOLUTION]_vars

\* A request's live solve returned without a solution, the request was
\* answered, and the cache holds no entry for its state.
C12_Witness ==
    \E h \in Handlers :
       /\ hint[h].pc = "done" /\ RanSolve(h) /\ hint[h].solution = None
       /\ ItemsAt(cache, cache_key(hint[h].bits, "wiegleb", FALSE)) = {}

\* The direct call of solve returned.
Returned == call.pc = "returned"

\* The bit of cell (r, c) in the bitmask of the call's shape.
CellBit(shape_id, r, c) == Bit(get_solver_data(shape_id).cell_index[<<r, c>>])

RECURSIVE LegalPath(_, _, _)
\* Every move of path is legal in the state it is applied to (from and jumped
\* bits set, to bit clear), takes exactly one piece off, and the state after
\* the last move has exactly one piece.
LegalPath(state, path, shape_id) ==
    IF path = <<>> THEN Cardinality(state) = 1
    ELSE LET m       == Head(path)
             from    == CellBit(shape_id, m.from_row, m.from_col)
             to      == CellBit(shape_id, m.to_row, m.to_col)
             jumped  == CellBit(shape_id, m.jump_row, m.jump_col)
             after   == (state \ {from, jumped}) \cup {to}
         IN  /\ from \in state
             /\ jumped \in state
             /\ to \notin state
             /\ Cardinality(after) = Cardinality(state) - 1
             /\ LegalPath(after, Tail(path), shape_id)

\* C13: a path solve returns for a board of p >= 2 pieces has exactly p - 1
\* moves, each legal in the state it is applied to, each state one piece
\* smaller than the one before, and the last state has exactly one piece.
C13_ReturnedPathLegal ==
    (Returned /\ Cardinality(call.board) >= 2 /\ call.result # None)
       => /\ Len(call.result[1]) = Cardinality(call.board) - 1
          /\ LegalPath(board_to_bits(call.board, call.shape_id), call.result[1], call.shape_id)

\* solve returned a path of three moves for a board of four pieces.
C13_Witness ==
    /\ Returned
    /\ Cardinality(call.board) = 4
    /\ call.result # None
    /\ Len(call.result[1]) = 3

\* The states one legal jump leads to from the board S (a set of cells) on
\* the cells valid: a piece jumps two cells along its row or column, over a
\* piece, onto a free valid cell.
JumpsFrom(S, valid) ==
    {(S \ {f, <<(f[1] + t[1]) \div 2, (f[2] + t[2]) \div 2>>}) \cup {t} :
        <<f, t>> \in {ft \in S \X (valid \ S) :
                /\ \/ ft[1][1] = ft[2][1] /\ ft[1][2] - ft[2][2] \in {-2, 2}
                   \/ ft[1][2] = ft[2][2] /\ ft[1][1] - ft[2][1] \in {-2, 2}
                /\ <<(ft[1][1] + ft[2][1]) \div 2, (ft[1][2] + ft[2][2]) \div 2>> \in S}}

RECURSIVE CanFinish(_, _)
\* Some sequence of legal jumps from S reaches a state with exactly one piece.
CanFinish(S, valid) ==
    \/ Cardinality(S) = 1
    \/ \E T \in JumpsFrom(S, valid) : CanFinish(T, valid)

\* The cells of a shape.
ValidSet(shape_id) ==
    {BOARD_SHAPES[shape_id].valid_cells[i] : i \in DOMAIN BOARD_SHAPES[shape_id].valid_cells}

\* C14 as claimed: with no deadline solve returns None exactly if no sequence
\* of legal jumps from the board reaches a state with exactly one piece.
C14_DecidesSolvability ==
    (Returned /\ call.time_limit = None)
       => (call.result = None <=> ~CanFinish(call.board, ValidSet(call.shape_id)))

\* C14 as amended: the same for a board with at least one piece; for the
\* empty board solve returns the empty list.
C14_DecidesSolvabilityNonEmpty ==
    (Returned /\ call.time_limit = None)
       => IF call.board = {}
          THEN call.result = Some(<<>>)
          ELSE (call.result = None <=> ~CanFinish(call.board, ValidSet(call.shape_id)))

\* solve without a deadline returned None for two pieces with no legal jump
\* between them (they touch at a corner only).
C14_Witness ==
    /\ Returned /\ call.time_limit = None
    /\ call.shape_id = "wiegleb"
    /\ call.board = {<<3, 0>>, <<4, 1>>}
    /\ call.result = None

----------------------------------------------------------------------------
(* Properties of cleanup_completed *)

C15_CleanupDone ==
    \E w \in Workers :
       /\ proc[w].cmd = "cleanup" /\ proc[w].pc = "exited" /\ proc[w].ret = Some(2)
       /\ ScanStatus(queue, {"solved", "failed"}) = {}

----------------------------------------------------------------------------
(* Properties of the item state machine *)

\* The status of the item under key, "absent" when there is none.
StatusAt(table, key) ==
    IF ItemsAt(table, key) = {} THEN "absent"
    ELSE (CHOOSE i \in ItemsAt(table, key) : TRUE).status

\* The transitions of an item the state machine allows.
AllowedTransitions ==
    { <<"absent", "pending">>, <<"failed", "pending">>, <<"pending", "solving">>,
      <<"solving", "pending">>, <<"solving", "absent">> }

\* C16: every change of an item's status or existence is one of absent ->
\* Pending, Failed -> Pending, Pending -> Solving, Solving -> Pending,
\* Solving -> deleted; mark_solved and mark_failed never delete an item that
\* is Pending or that a different worker has claimed.
C16_ItemTransitions ==
    [][/\ \A i \in queue \cup queue' :
            \/ StatusAt(queue, i.board_state) = StatusAt(queue', i.board_state)
            \/ <<StatusAt(queue, i.board_state), StatusAt(queue', i.board_state)>>
                   \in AllowedTransitions
       /\ last'.op \in {"mark_solved", "mark_failed"}
             => \A i \in last'.before :
                   /\ i.status # "pending"
                   /\ \A p \in lease : p[1] = i.board_state => p[2] = last'.who[1]]_vars

----------------------------------------------------------------------------
(* Properties of the worker processes *)

\* The items process w moved to Solving that are still Solving under its claim.
OwnedBy(w) == {p \in lease : p[2] = w}

\* C18 as claimed: in every reachable state each process owns at most one
\* item it moved to Solving and has not completed or released, in
\* single-item mode and in all-items mode.
C18_OneItemPerProcess ==
    \A w \in Workers : Cardinality(OwnedBy(w)) <= 1

\* C18 as amended: a process in single-item mode (claim_next, solve_one) owns
\* at most one item; a process in all-items mode owns at most as many items
\* as get_all_claimable scanned; and in every mode solve_item has at most one
\* item registered as active.
C18_OneItemSingleMode ==
    \A w \in Workers :
       /\ proc[w].cmd \in {"claim_next", "solve_one"} => Cardinality(OwnedBy(w)) <= 1
       /\ (proc[w].cmd = "solve_all" /\ proc[w].pc \in {"ga_claim", "si_start", "si_solve"})
             => Cardinality(OwnedBy(w)) <= Len(proc[w].items)
       /\ Len(proc[w].active) <= 1

\* A solve_one process is in solve_item on the one item it claimed while
\* another item is waiting Pending in the queue.
C18_Witness ==
    \E w \in Workers :
       /\ proc[w].cmd = "solve_one" /\ proc[w].pc = "si_solve"
       /\ Cardinality(OwnedBy(w)) = 1
       /\ ScanStatus(queue, {"pending"}) # {}

----------------------------------------------------------------------------
(* Properties of get_solver_data *)

\* C19: _build_solver_data runs at most once per shape id in the life of the
\* process, also when several threads call get_solver_data for the shape at
\* the same time before its entry exists.
C19_BuiltAtMostOnce ==
    \A shape_id \in ThreadShapes : built[shape_id] <= 1

\* A call for a shape whose entry exists returned it without building.
C19_HitReturnsEntry ==
    \E t \in Threads :
       /\ thread[t].pc = "idle" /\ thread[t].shape_id = "wiegleb"
       /\ thread[t].ret = Some("import")
       /\ built["wiegleb"] = 1

----------------------------------------------------------------------------
(* Properties of the store-failure handling *)

\* C20: a store failure in a cache or queue method is never propagated to
\* the caller: the method returns normally with its empty result (a miss
\* for get_solution) and the tables are as they were before the call.
C20_StoreFailureNotPropagated ==
    [][(api.pc = "call" /\ api'.pc # "call")
          => /\ api'.pc = "returned"
             /\ api'.ret = ErrorResult[api'.method]
             /\ queue' = queue /\ cache' = cache]_vars

\* get_solution returned None (a miss) although the table holds an entry,
\* because the store request failed.
C20_MissOnFailure ==
    /\ api.pc = "returned" /\ api.method = "get_solution" /\ api.ret = PyNone
    /\ cache # {}

----------------------------------------------------------------------------
(* Properties of the conversions *)

\* C21: encode and decode are exact inverses for every shape: encoding the
\* grid decoded from a bitmask of the shape's bit range gives the bitmask
\* back, and decoding the encoding of a grid that is False outside the
\* shape's valid cells gives the grid back.
C21_RoundTrip ==
    /\ (Returned /\ call.fn = "encode_decode") => call.result = call.bits
    /\ (Returned /\ call.fn = "decode_encode") => call.result = call.grid

\* The round trip was made on the bitmask holding the highest bit of the
\* wiegleb range, and on an english grid with four pieces.
C21_Witness ==
    /\ Returned
    /\ \/ /\ call.fn = "encode_decode" /\ call.shape_id = "wiegleb"
          /\ Len(BOARD_SHAPES["wiegleb"].valid_cells) - 1 \in call.bits
          /\ Cardinality(call.bits) >= 3
       \/ /\ call.fn = "decode_encode" /\ call.shape_id = "english"
          /\ Cardinality(TrueCells(call.grid)) = 4

\* The move of an apply_move call is legal on its grid.
LegalOnGrid ==
    /\ call.grid[<<call.move.from_row, call.move.from_col>>]
    /\ call.grid[<<call.move.jump_row, call.move.jump_col>>]
    /\ ~call.grid[<<call.move.to_row, call.move.to_col>>]

\* The cells that hold True after the move is made on the grid.
GridAfterMove ==
    (TrueCells(call.grid) \ {<<call.move.from_row, call.move.from_col>>,
                             <<call.move.jump_row, call.move.jump_col>>})
       \cup {<<call.move.to_row, call.move.to_col>>}

\* C22: _apply_move_to_bits clears the from bit and the jumped bit, sets the
\* to bit and leaves every other bit as it was; for a move that is legal in
\* the state the popcount goes down by exactly 1; and the result is the
\* encoding of the grid on which the same move was made.
C22_ApplyMoveFrame ==
    (Returned /\ call.fn = "apply_move") =>
       LET from   == CellBit(call.shape_id, call.move.from_row, call.move.from_col)
           to     == CellBit(call.shape_id, call.move.to_row, call.move.to_col)
           jumped == CellBit(call.shape_id, call.move.jump_row, call.move.jump_col)
       IN  /\ from \notin call.result
           /\ jumped \notin call.result
           /\ to \in call.result
           /\ \A b \in (call.state \cup call.result) \ {from, to, jumped} :
                 b \in call.state <=> b \in call.result
           /\ LegalOnGrid => Cardinality(call.result) = Cardinality(call.state) - 1
           /\ call.result = board_to_bits(GridAfterMove, call.shape_id)

\* A legal move was applied to a state holding two pieces besides the two
\* the move takes off.
C22_Witness ==
    /\ Returned /\ call.fn = "apply_move"
    /\ LegalOnGrid
    /\ Cardinality(call.state) = 4
    /\ Cardinality(call.result) = 3

\* C25: for a grid with at most one occupied cell solve returns the empty
\* list at once, without entering the search, with and without a deadline.
C25_BaseCaseReturnsEmpty ==
    (Returned /\ "board" \in DOMAIN call /\ Cardinality(call.board) <= 1)
       => /\ call.result = Some(<<>>)
          /\ ~call.run[MAX_FAILED].searched

\* solve was called with a deadline on a grid with one occupied cell, and
\* on the empty grid.
C25_Witness ==
    /\ Returned /\ "board" \in DOMAIN call
    /\ Cardinality(call.board) <= 1
    /\ call.time_limit # None
    /\ call.result = Some(<<>>)

\* The state after the k-th move of the table, written out.
PlainAfter(moves_list, state, k) ==
    (state \ {moves_list[k].from_bit, moves_list[k].jump_bit}) \cup {moves_list[k].to_bit}

RECURSIVE plain_dfs(_, _)
\* A depth-first search without memo that tries the moves of the table in
\* construction order: the first solution in that order, or None.
plain_dfs(moves_list, state) ==
    IF Cardinality(state) = 1 THEN Some(<<>>)
    ELSE LET good == {k \in 1..Len(moves_list) :
                        /\ moves_list[k].from_bit \in state
                        /\ moves_list[k].jump_bit \in state
                        /\ moves_list[k].to_bit \notin state
                        /\ plain_dfs(moves_list, PlainAfter(moves_list, state, k)) # None}
         IN  IF good = {} THEN None
             ELSE LET first == CHOOSE k \in good : \A l \in good : k <= l
                  IN  Some(<<MoveDict(moves_list[first])>>
                           \o plain_dfs(moves_list, PlainAfter(moves_list, state, first))[1])

\* The plain search on the board of the call, with solve's answer for a
\* board of at most one piece.
PlainSolve ==
    IF Cardinality(call.board) <= 1 THEN Some(<<>>)
    ELSE plain_dfs(get_solver_data(call.shape_id).precomputed_moves,
                   board_to_bits(call.board, call.shape_id))

\* C30: with no deadline the value solve returns does not depend on the
\* failed-state memo: with a memo of any capacity (none, one state, two
\* states, 1,000,000 states) it is the value of the plain depth-first search
\* in move-table order, the first solution in that order or None.
C30_MemoDoesNotChangeResult ==
    (Returned /\ "board" \in DOMAIN call /\ call.time_limit = None)
       => /\ call.result = PlainSolve
          /\ \A c \in MemoCapacities : call.run[c].result = PlainSolve

\* A search in which the memo answered a call and held two failed states
\* returned a solution.
C30_Witness ==
    /\ Returned /\ "board" \in DOMAIN call /\ call.time_limit = None
    /\ call.result # None
    /\ call.run[MAX_FAILED].hits >= 1
    /\ Cardinality(call.run[MAX_FAILED].failed) >= 2
    /\ call.run[0].failed = {}

----------------------------------------------------------------------------
(* Properties of reset_stuck *)

\* C24: --reset-stuck resets the Solving items to Pending: a step of the
\* command on an item that is Solving leaves the item in the queue with
\* status Pending, and no step of it removes an item from the queue.
C24_ResetStuckResetsToPending ==
    [][last'.op = "reset_stuck"
         => /\ \A i \in queue : ItemsAt(queue', i.board_state) # {}
            /\ StatusIs(queue, last'.key, "solving")
                 => StatusIs(queue', last'.key, "pending")]_vars

\* What the command does: when it has run on a table of two solving items,
\* the table is empty.
C24_ResetStuckDeleted ==
    \E w \in Workers :
       /\ proc[w].cmd = "reset_stuck" /\ proc[w].pc = "exited"
       /\ last.op = "reset_stuck" /\ last.who = Some(w)
       /\ \E i \in last.before : i.status = "solving"
       /\ queue = {}

----------------------------------------------------------------------------
(* Properties of claim_next's choice *)

\* Item i has the smallest stone_count among the items of S.
SmallestIn(S, i) == i \in S /\ \A o \in S : i.stone_count <= o.stone_count

\* Process w is at claim_next's scan and goes on from it (it is not killed
\* or signalled at this step).
ChoosesAt(w) ==
    /\ proc[w].pc = "cn_scan"
    /\ proc'[w].pc \in {"cn_update", "returned", "si_start", "exited"}

\* C28: claim_next chooses the Pending item of its scan with the smallest
\* stone_count (and then goes on to the claiming update); it returns an item
\* that is already Solving only when include_solving is set and the scan
\* found no Pending item, and then the Solving item with the smallest
\* stone_count.
C28_ClaimNextChoice ==
    [][\A w \in Workers : ChoosesAt(w) =>
          LET pend == ScanStatus(queue, {"pending"})
              solv == ScanStatus(queue, {"solving"}) IN
          /\ pend # {} =>
                /\ proc'[w].pc = "cn_update"
                /\ \E i \in pend : SmallestIn(pend, i) /\ proc'[w].items = <<Snapshot(i)>>
          /\ (pend = {} /\ proc'[w].ret # None) =>
                /\ proc[w].incl
                /\ \E i \in solv : SmallestIn(solv, i) /\ proc'[w].ret = Some(Snapshot(i))
          /\ (pend = {} /\ ~(proc[w].incl /\ solv # {})) => proc'[w].ret = None]_vars

\* The scan found two Pending items, of 2 and of 3 stones, and claim_next
\* chose the one of 2 stones.
C28_Witness ==
    \E w \in Workers :
       /\ proc[w].pc = "cn_update"
       /\ proc[w].items[1].stone_count = 2
       /\ \E i, o \in ScanStatus(queue, {"pending"}) :
             /\ i.board_state = proc[w].items[1].board_state
             /\ o.stone_count = 3

----------------------------------------------------------------------------
(* Properties of the lease *)

\* Process w leaves claim_next's scan with an item that is already Solving.
ReturnsSolvingAt(w) ==
    /\ proc[w].pc = "cn_scan"
    /\ proc'[w].pc \in {"returned", "si_start"}
    /\ proc'[w].ret # None

\* C29: when claim_next(include_solving=True) returns an item that is
\* already Solving it writes nothing: the table, and with it the item's
\* status and updated_at, is the same after the step.
C29_ReturnSolvingWritesNothing ==
    [][\A w \in Workers : ReturnsSolvingAt(w) =>
          /\ proc[w].incl
          /\ StatusIs(queue, proc'[w].ret[1].board_state, "solving")
          /\ queue' = queue]_vars

\* The lease was not renewed for the second worker: the item it was handed
\* has been reset to Pending by another process's reset_stale_items while
\* the worker is in solve_item on it.
C29_Witness ==
    \E w \in Workers :
       /\ proc[w].joined
       /\ proc[w].pc = "si_solve"
       /\ last.op = "reset_release"
       /\ last.who # Some(w)
       /\ last.key = proc[w].ret[1].board_state
       /\ \E i \in last.before : i.status = "solving"
       /\ StatusIs(queue, last.key, "pending")

\* The keys of the items the queue may hold.
QueueKeys == {queue_key(inp[1], inp[3], inp[4]) : inp \in EnqInputs}

----------------------------------------------------------------------------
(* Properties of the workers' progress *)

\* The cache holds a Solved or Unsolvable entry for the board of inp.
Decided(inp) ==
    \E e \in ItemsAt(cache, cache_key(inp[1], inp[3], inp[4])) : e.solution # QUEUED

\* The cache holds an Unsolvable entry for the board of inp.
NegativeCached(inp) ==
    \E e \in ItemsAt(cache, cache_key(inp[1], inp[3], inp[4])) : e.solution = NO_SOLUTION

\* The board of inp, as solve_item builds it, has no solution: a solve of it
\* that runs to its end ends without one.
NoSolution(inp) ==
    solve(TrueCells(bits_to_board(inp[1], inp[3])), None, inp[3], 0) = None

\* Process w is in solve_item on the item of inp, which it claimed or was
\* handed.
SolvingItemOf(w, inp) ==
    /\ proc[w].pc = "si_solve"
    /\ proc[w].items[proc[w].idx].board_state = queue_key(inp[1], inp[3], inp[4])

\* C23: when a worker's solve of a claimed item ends without a solution, the
\* worker writes Unsolvable to the cache for that key and deletes the queue
\* item: from a worker being in solve_item on a board that has no solution,
\* the cache comes to hold Unsolvable for it and the item leaves the queue.
C23_NoSolutionIsNegativeCached ==
    \A w \in Workers : \A inp \in EnqInputs :
       (SolvingItemOf(w, inp) /\ NoSolution(inp))
          ~> (NegativeCached(inp) /\ ItemsAt(queue, queue_key(inp[1], inp[3], inp[4])) = {})

\* What happens instead: the item of a board that has no solution, claimed
\* and worked on by a process that has died of the exception, has been put
\* back to Pending by reset_stale_items, and the cache is empty.
C23_BackToPending ==
    \E inp \in EnqInputs :
       /\ NoSolution(inp)
       /\ last.op = "reset_release"
       /\ last.key = queue_key(inp[1], inp[3], inp[4])
       /\ \E w \in last.holders : proc[w].pc = "dead" /\ proc[w].exit = "exception"
       /\ StatusIs(queue, last.key, "pending")
       /\ cache = {}

\* C27: with workers that run solve_one again and again, no store failure
\* and no kill, every item in the queue is claimed at some time, has a Solved
\* or Unsolvable entry written to the cache for its key at some time, and is
\* removed from the queue at some time.
C27_EnqueuedIsEventuallyDecided ==
    \A inp \in EnqInputs :
       LET key == queue_key(inp[1], inp[3], inp[4]) IN
       /\ StatusIs(queue, key, "pending") ~> StatusIs(queue, key, "solving")
       /\ StatusIs(queue, key, "pending") ~> Decided(inp)
       /\ StatusIs(queue, key, "pending") ~> (ItemsAt(queue, key) = {})

\* What happens instead: no worker ever writes to the cache.
C27_CacheStaysEmpty == cache = {}

----------------------------------------------------------------------------
(* Properties of the keys *)

\* C31: the cache key and the queue key of a state are the same text, two
\* different states (shape id, variant flag, bitmask) never have the same
\* key, and the integer the workers parse from the text after the last ':'
\* of a key is the bitmask the key was built from.
C31_KeysCanonical ==
    (call.pc = "returned" /\ call.fn = "keys") =>
       /\ \A n \in {1, 2} :
             /\ call.cache_keys[n] = call.queue_keys[n]
             /\ call.parsed[n] = BitsValue(call.inputs[n][3])
       /\ call.queue_keys[1] = call.queue_keys[2] => call.inputs[1] = call.inputs[2]

\* The keys of one bitmask on the default shape and on another shape with
\* the variant flag set were built: "11" and "diag:diamond:11", from both
\* of which 11 is parsed.
C31_Witness ==
    /\ call.pc = "returned" /\ call.fn = "keys"
    /\ call.inputs = << <<"wiegleb", FALSE, {0, 1, 3}>>, <<"diamond", TRUE, {0, 1, 3}>> >>
    /\ call.queue_keys[1] = <<"1", "1">>
    /\ call.queue_keys[2] = <<"diag", ":", "diamond", ":", "1", "1">>
    /\ call.parsed = [n \in {1, 2} |-> 11]

----------------------------------------------------------------------------
(* Properties of the move table *)

\* Cells a and b are two apart along a row or a column.
TwoApart(a, b) ==
    \/ a[1] = b[1] /\ a[2] - b[2] \in {-2, 2}
    \/ a[2] = b[2] /\ a[1] - b[1] \in {-2, 2}

\* The cell between a and b.
Between(a, b) == <<(a[1] + b[1]) \div 2, (a[2] + b[2]) \div 2>>

\* The jumps (from, to, jumped) of a shape that start on cell.
JumpsOfCell(shape_id, cell) ==
    {<<cell, to, Between(cell, to)>> :
        to \in {t \in ValidSet(shape_id) : cell \in ValidSet(shape_id) /\ TwoApart(cell, t)}}

\* C32: for every shape the move table holds exactly the jumps (from, to,
\* jumped) with from and to valid cells two apart along a row or a column
\* and jumped the cell between them, each once and with the bits of these
\* cells; the jumped cell of every entry is a valid cell, and building the
\* table does not fail on a missing cell index.
C32_MoveTableExact ==
    (call.pc = "returned" /\ call.fn = "table") =>
       /\ ~call.raised
       /\ {<< <<m.from_row, m.from_col>>, <<m.to_row, m.to_col>>, <<m.jump_row, m.jump_col>> >> :
              m \in {call.entries[k] : k \in DOMAIN call.entries}}
            = JumpsOfCell(call.shape_id, call.cell)
       /\ Len(call.entries) = Cardinality(JumpsOfCell(call.shape_id, call.cell))
       /\ \A k \in DOMAIN call.entries :
             LET m == call.entries[k] IN
             /\ <<m.jump_row, m.jump_col>> \in ValidSet(call.shape_id)
             /\ m.from_bit = CellBit(call.shape_id, m.from_row, m.from_col)
             /\ m.to_bit = CellBit(call.shape_id, m.to_row, m.to_col)
             /\ m.jump_bit = CellBit(call.shape_id, m.jump_row, m.jump_col)

\* The table of the diamond board was built: its top cell (0, 4) has the
\* one jump down over (1, 4), and its centre has four jumps.
C32_Witness ==
    /\ call.pc = "returned" /\ call.fn = "table"
    /\ call.shape_id = "diamond"
    /\ \/ /\ call.cell = <<0, 4>>
          /\ Len(call.entries) = 1
          /\ call.entries[1].jump_row = 1 /\ call.entries[1].to_row = 2
       \/ /\ call.cell = <<4, 4>>
          /\ Len(call.entries) = 4

----------------------------------------------------------------------------
(* Properties of get_all_claimable *)

\* Process w has returned from get_all_claimable(include_solving=False) with
\* the list proc[w].items.
ReturnedList(w) ==
    /\ proc[w].pc = "returned"
    /\ proc[w].cmd = "get_all_claimable"
    /\ ~proc[w].incl

\* C33 as claimed: every item of the list get_all_claimable(False) returns
\* was moved from Pending to Solving by that call (the list gives it as
\* Solving); an item whose claim lost the race is not in the list.
C33_ReturnedWereClaimed ==
    \A w \in Workers :
       ReturnedList(w) => \A n \in DOMAIN proc[w].items : proc[w].items[n].status = "solving"

\* C33: get_all_claimable(False) keeps every scanned item in its list; the
\* list gives an item as Solving exactly if this call's update moved it from
\* Pending to Solving, and as Pending, as scanned, if the update lost the
\* race.
C33_ListStatusTellsClaim ==
    [][\A w \in Workers :
          (/\ proc[w].pc = "ga_claim" /\ proc[w].cmd = "get_all_claimable" /\ ~proc[w].incl
           /\ proc'[w] # proc[w])
          => LET n   == proc[w].idx
                 key == proc[w].items[n].board_state IN
             /\ Len(proc'[w].items) = Len(proc[w].items)
             /\ \A k \in DOMAIN proc[w].items :
                   proc'[w].items[k].board_state = proc[w].items[k].board_state
             /\ proc[w].items[n].status = "pending"
             /\ proc'[w].items[n].status = "solving"
                   <=> (StatusIs(queue, key, "pending") /\ StatusIs(queue', key, "solving"))
             /\ proc'[w].items[n].status # "solving"
                   => (proc'[w].items[n].status = "pending" /\ queue' = queue)]_vars

\* A call returned a list of two items of which it claimed one and lost the
\* other to another process, which holds it.
C33_Witness ==
    \E w \in Workers :
       /\ ReturnedList(w)
       /\ \E n, k \in DOMAIN proc[w].items :
             /\ proc[w].items[n].status = "pending"
             /\ StatusIs(queue, proc[w].items[n].board_state, "solving")
             /\ \E o \in Workers \ {w} : <<proc[w].items[n].board_state, o>> \in lease
             /\ proc[w].items[k].status = "solving"
             /\ <<proc[w].items[k].board_state, w>> \in lease

\* C34: only enqueue creates queue items, so every item present in the queue
\* carries stone_count, shape_id and allow_diagonals, and a release (direct,
\* or from reset_stale_items) on a key whose item was deleted leaves the
\* queue without an item for that key.
C34_OnlyEnqueueCreatesItems ==
    /\ \A i \in queue : {"stone_count", "shape_id", "allow_diagonals"} \subseteq DOMAIN i
    /\ (last.op \in {"release", "reset_release"} /\ ItemsAt(last.before, last.key) = {})
          => ItemsAt(queue, last.key) = {}

\* C35: whenever solve_item ends, normally or by an exception raised after
\* it registered the item in _active_items, the item it was processing is
\* not left Solving: it has been deleted or released to Pending.
C35_SolveItemLeavesNoSolving ==
    [][\A w \in Workers :
          (proc[w].pc = "si_solve" /\ proc'[w].pc # "si_solve")
          => LET a == proc[w].active[Len(proc[w].active)] IN
             ~StatusIs(queue', queue_key(a[1], a[2], a[3]), "solving")]_vars

----------------------------------------------------------------------------
(* Properties of the cache as a whole *)

\* The cache entries that hold a move list, with the list.
MoveEntries == {e \in cache : e.solution \notin {NO_SOLUTION, QUEUED}}

----------------------------------------------------------------------------
(* Properties of the memo of failed states *)

\* The cells that hold a piece in the state s of the shape.
CellsOf(s, shape_id) == {BOARD_SHAPES[shape_id].valid_cells[i + 1] : i \in s}

\* C38: every state in the failed set of a search has had all its legal
\* moves explored without reaching one piece (each move leads to a state of
\* two or more pieces that is in the set itself, so no sequence of jumps from
\* it ends on one piece); and once the deadline has been seen to have passed
\* no state is added to the set, no move is applied, and the accumulated path
\* is empty when solve returns.
C38_FailedMemoSound ==
    (Returned /\ "search" \in DOMAIN call) =>
       LET run   == call.search
           valid == ValidSet(call.shape_id) IN
       /\ \A s \in run.failed :
             /\ Cardinality(s) >= 2
             /\ \A T \in JumpsFrom(CellsOf(s, call.shape_id), valid) :
                   /\ Cardinality(T) >= 2
                   /\ board_to_bits(T, call.shape_id) \in run.failed
             /\ Cardinality(s) <= MaxStones => ~CanFinish(CellsOf(s, call.shape_id), valid)
       /\ run.timed_out =>
             /\ run.at_deadline # None
             /\ run.failed = run.at_deadline[1].failed
             /\ run.applied = run.at_deadline[1].applied
             /\ run.path = <<>>
             /\ run.result = None

\* A search of a board that has a solution ran out of time with failed
\* states in its memo and moves on its path.
C38_Witness ==
    /\ Returned /\ "search" \in DOMAIN call
    /\ call.search.timed_out
    /\ call.search.failed # {}
    /\ call.search.applied > 0
    /\ solve(call.board, None, call.shape_id, 0) # None

----------------------------------------------------------------------------
(* Properties of the stored statuses *)

\* C39: on a table that started empty, after any use of enqueue, claim_next,
\* get_all_claimable, release, reset_stale_items, mark_solved and
\* mark_failed every item has status Pending or Solving; cleanup_completed
\* finds nothing to delete and returns 0, and get_queue_stats reports zero
\* for solved and failed and total = pending + solving.
C39_OnlyPendingOrSolvingStored ==
    /\ \A i \in queue : "status" \in DOMAIN i /\ i.status \in {"pending", "solving"}
    /\ \A w \in Workers :
          /\ proc[w].pc # "cl_delete"
          /\ (proc[w].cmd = "cleanup" /\ proc[w].pc = "exited") => proc[w].ret = Some(0)
          /\ (proc[w].cmd = "stats" /\ proc[w].pc = "exited") =>
                LET stats == proc[w].ret[1] IN
                /\ stats.solved = 0
                /\ stats.failed = 0
                /\ stats.total = stats.pending + stats.solving
                /\ DOMAIN stats = {"pending", "solving", "solved", "failed", "total"}

\* get_queue_stats counted one Pending and one Solving item: two states
\* were enqueued and one of them was claimed.
C39_Witness ==
    \E w \in Workers :
       /\ proc[w].cmd = "stats" /\ proc[w].pc = "exited"
       /\ proc[w].ret[1].pending = 1 /\ proc[w].ret[1].solving = 1
       /\ proc[w].ret[1].total = 2

====
